---- MODULE Spec2Model ----
(***************************************************************************)
(* Verification model of kin-sdk-python: the channel pool                  *)
(* (kin/blockchain/channel_manager.py), the builder-queue channel managers *)
(* (kin/stellar/channel_manager.py, kin/channel_manager.py), the account   *)
(* facade's submit_transaction (kin/account.py, kin/transactions.py) and   *)
(* the gateway's submit loop (kin/blockchain/horizon.py).                  *)
(*                                                                         *)
(* Each component has its own specification (SpecPool, SpecSend,           *)
(* SpecAccount, SpecHorizon) over its own variables; the variables of the  *)
(* other components keep their initial values.                             *)
(***************************************************************************)
EXTENDS Integers, Sequences, FiniteSets, TLC

\* ------------------------------------------------------------------------
\* Bounds
\* ------------------------------------------------------------------------
NumChannels == 2

NumCallers == 2

channels_seeds == 1..NumChannels

\* every seed a caller can pass to put_channel: the pool's seeds and seed 0,
\* which stands for a seed the pool was not created with
Seeds == 0..NumChannels

Callers == 1..NumCallers

NoChannel == "no_channel"

\* ------------------------------------------------------------------------
\* ChannelStatuses (kin/blockchain/channel_manager.py)
\* ------------------------------------------------------------------------
FREE == "free"

TAKEN == "taken"

UNDERFUNDED == "underfunded"

ChannelStatuses == {FREE, TAKEN, UNDERFUNDED}

VARIABLES
    \* --- ChannelPool / ChannelManager (kin/blockchain/channel_manager.py) ---
    queue,      \* ChannelPool.queue: dict seed -> status
    pc,         \* position of each caller in get_channel / put_channel
    held,       \* the channel a caller's get_channel context yielded
    expired,    \* the timeout of the caller's blocking get / put has elapsed
    putArg,     \* the argument of the put_channel call in progress
    result,     \* how the caller's last call ended
    status,     \* the dict a caller's get_status call in progress is returning
    out,        \* history: channels handed out by get and not put back since
    \* --- ChannelManager.send_transaction (kin/stellar, kin/channel_manager.py) ---
    variant,          \* which of the two send_transaction variants the manager is
    base_is_channel,  \* the first channel key is the base key itself
    channel_builders, \* queue.Queue of builders (FIFO)
    builders,         \* the content of each channel builder
    spc,              \* position of each caller in send_transaction
    sbuilder,         \* the builder the caller took from channel_builders
    retry_count,      \* send_transaction's local retry_count
    retrying,         \* send_transaction's local retrying
    sexpired,         \* the timeout of the caller's channel_builders.get is over
    smemo,            \* the call was given a memo_text
    sexc,             \* the return value or exception the call is ending with
    sresult,          \* how the caller's last send_transaction ended
    sraised,          \* what the try block of the caller's attempt raised
    \* --- KinAccount.submit_transaction (kin/account.py, kin/transactions.py) ---
    a_channel_builders,   \* channel_manager.channel_builders (FIFO queue)
    low_balance_builders, \* channel_manager.low_balance_builders (list)
    a_builders,           \* the content of each channel builder
    apc,                  \* position of each caller
    atx,                  \* the builder of the caller's Transaction
    depth,                \* number of nested submit_transaction re-submissions
    aexc,                 \* the return value or exception the call is ending with
    aresult,              \* how the caller's last call ended
    alog                  \* history: the gateway replies of the caller's call

poolVars == <<queue, pc, held, expired, putArg, result, status, out>>

sendVars == <<variant, base_is_channel, channel_builders, builders, spc, sbuilder,
              retry_count, retrying, sexpired, smemo, sexc, sresult, sraised>>

\* Horizon.submit (kin/blockchain/horizon.py), per caller
VARIABLES
    hpc,            \* position of the caller in submit
    h_retry_count,  \* the local retry_count
    h_reply,        \* status of the local reply (NoReply for None)
    hlog,           \* outcomes of the POSTs of the caller's last call
    hresult         \* what the last call returned or raised

hzVars == <<hpc, h_retry_count, h_reply, hlog, hresult>>

acctVars == <<a_channel_builders, low_balance_builders, a_builders, apc, atx,
              depth, aexc, aresult, alog>>

\* one Builder and its account on the ledger (kin/blockchain/builder.py)
VARIABLES
    bld,            \* the builder's attributes
    ledger,         \* the sequence number of the builder's account on the ledger
    bop,            \* the last method called on the builder
    last_sent       \* the sequence number carried by the last transaction that
                    \* a sign() without a secret generated (0: none yet)

bldVars == <<bld, ledger, bop, last_sent>>

\* a call of one of the SDK's pure functions
VARIABLES
    fn_args,        \* the arguments of the call
    fn_done,        \* whether the call has ended
    fn_ret          \* what the call returned or raised

fnVars == <<fn_args, fn_done, fn_ret>>

\* the arguments of each caller's last build_create_account, build_send_kin
\* or build_send_xlm call (kin/account.py)
VARIABLES ainp

\* the ledger's sequence numbers and the transactions of KinAccount
\* (kin/account.py, kin/transactions.py)
VARIABLES
    sole_base,      \* the base account is the account's own sole channel
    lseq,           \* the ledger: the sequence number of each account
    bseq,           \* builder.sequence of each channel builder
    txs,            \* each caller's Transaction: body, hash and signatures at creation
    tub,            \* the sequence the builder of each caller's _top_up signed with
    sent            \* the envelopes each caller's submit_transaction call has sent

ledVars == <<sole_base, lseq, bseq, txs, tub, sent>>

\* a payment monitor and its stream (kin/monitors.py, kin/sdk.py)
VARIABLES
    mkind,          \* SingleMonitor, MultiMonitor or the SDK's event processor
    only_payments,  \* the SDK processor's only_payments argument
    mpc,            \* position of the monitor thread
    stop_event,     \* self.stop_event is set
    retry,          \* self.sse_client.retry
    stpc,           \* position of the caller of stop()
    cur,            \* the event the thread took from the stream
    nev,            \* how many events the thread has taken
    failures,       \* how many exceptions the processor has logged
    delivered       \* the callback invocations made

monVars == <<mkind, only_payments, mpc, stop_event, retry, stpc, cur, nev,
             failures, delivered>>

\* KinClient.activate_account and the account it activates (kin/client.py)
VARIABLES
    balances,       \* the account on the ledger: its balances, or NoAccount
    kpc,            \* position of each caller in activate_account
    kseed_ok,       \* whether the caller's seed argument is a valid secret key
    kstatus,        \* the status the caller's get_account_status returned
    kresult,        \* what the caller's last call returned or raised
    trust_log       \* the trust transactions submitted: who, and with which status read

actVars == <<balances, kpc, kseed_ok, kstatus, kresult, trust_log>>

\* MultiMonitor's list of watched addresses (kin/monitors.py)
VARIABLES
    addresses,      \* self.addresses
    mm_stopped,     \* self.stop_event.is_set()
    addr_pc,        \* "idle", or "called" while add_address / remove_address runs
    addr_op,        \* the method called and its address argument
    addr_result     \* what the last call returned or raised

addrVars == <<addresses, mm_stopped, addr_pc, addr_op, addr_result>>

extraVars == <<ledVars, monVars, actVars, addrVars>>

auxVars == <<bldVars, fnVars, ainp, extraVars>>

vars == <<poolVars, sendVars, acctVars, hzVars, auxVars>>

\* ------------------------------------------------------------------------
\* ChannelPool
\* ------------------------------------------------------------------------
\* ChannelPool.__init__: Queue(len(channels_seeds)), every seed FREE
maxsize == NumChannels

PoolInitQueue == [c \in channels_seeds |-> FREE]

get_free_channels_NotTaken(q) == {c \in DOMAIN q : q[c] # TAKEN}

\* ChannelPool.get_free_channels
get_free_channels(q) == {c \in DOMAIN q : q[c] = FREE}

\* ChannelPool._qsize
qsize(q) == Cardinality(get_free_channels(q))

\* ChannelPool._put: a dict store, which adds the key when it is missing
PoolPutItem(q, channel) ==
    [c \in (DOMAIN q) \cup {channel} |-> IF c = channel THEN FREE ELSE q[c]]

PoolGetItem_KeepsStatus(q, selected_channel) == q

\* ChannelPool._get, for the channel random.choice selected
PoolGetItem(q, selected_channel) == [q EXCEPT ![selected_channel] = TAKEN]

\* queue.Queue.put blocks while maxsize > 0 and _qsize() >= maxsize
PoolIsFull(q) == maxsize > 0 /\ qsize(q) >= maxsize

\* ChannelManager.get_status
\* (with verbose the dict also carries a reference to the live queue dict,
\* modelled by the flag has_channels)
get_status(q, verbose) ==
    [total_channels |-> Cardinality(DOMAIN q),
     free_channels |-> qsize(q),
     non_free_channels |-> Cardinality(DOMAIN q) - qsize(q),
     has_channels |-> verbose]

NoStatus == [total_channels |-> 0, free_channels |-> 0,
             non_free_channels |-> 0, has_channels |-> FALSE]

\* ------------------------------------------------------------------------
\* Horizon errors (kin/blockchain/errors.py, kin/stellar/errors.py)
\* ------------------------------------------------------------------------
TRANSACTION_FAILED == "transaction_failed"

TRANSACTION_MALFORMED == "transaction_malformed"

INTERNAL_SERVER_ERROR == "server_error"

BAD_SEQUENCE == "tx_bad_seq"

INSUFFICIENT_BALANCE == "tx_insufficient_balance"

FAILED == "tx_failed"

NoCode == "no_code"

\* a HorizonError: its type, its extras.result_codes.transaction (code) and
\* its extras.result_codes.operations
HorizonError(type, transaction, operations) ==
    [kind |-> "HorizonError", type |-> type, code |-> transaction,
     operations |-> operations]

\* the other ways a call ends: a returned value, or an exception that is not
\* a HorizonError
Outcome(kind) ==
    [kind |-> kind, type |-> NoCode, code |-> NoCode, operations |-> << >>]

NoOutcome == Outcome("none")

\* ------------------------------------------------------------------------
\* Builder and the builder queue of ChannelManager (kin/stellar, kin)
\* ------------------------------------------------------------------------
BuilderIds == 1..NumChannels

NoBuilder == 0

\* Builder.clear: ops, memo, tx and te of a builder that can be reused
CleanBuilder == [ops |-> << >>, memo |-> FALSE, sigs |-> << >>, te |-> FALSE]

clear(b) == CleanBuilder

\* Horizon's num_retries, which send_transaction and Horizon.submit read
num_retries == 2

\* ChannelManager.__init__: one builder per channel key, all in the queue
\* the size of the builder queue: the number of channel keys the manager was
\* created with
num_channels == Cardinality(DOMAIN builders)

SendInit ==
    /\ variant \in {"stellar", "kin"}
    /\ base_is_channel \in BOOLEAN
    /\ \E n \in 1..NumChannels :
          /\ channel_builders = [i \in 1..n |-> i]
          /\ builders = [b \in 1..n |-> CleanBuilder]
    /\ spc = [t \in Callers |-> "idle"]
    /\ sbuilder = [t \in Callers |-> NoBuilder]
    /\ retry_count = [t \in Callers |-> 0]
    /\ retrying = [t \in Callers |-> FALSE]
    /\ sexpired = [t \in Callers |-> FALSE]
    /\ smemo = [t \in Callers |-> FALSE]
    /\ sexc = [t \in Callers |-> NoOutcome]
    /\ sresult = [t \in Callers |-> NoOutcome]
    /\ sraised = [t \in Callers |-> NoOutcome]

SendQuiet ==
    /\ SendInit
    /\ variant = "stellar"
    /\ base_is_channel = FALSE
    /\ Len(channel_builders) = NumChannels

\* KinAccount.__init__ creates the ChannelManager: all builders in the queue
\* the manager of an account built from n channel seeds
AcctInitWith(n) ==
    /\ a_channel_builders = [i \in 1..n |-> i]
    /\ low_balance_builders = << >>
    /\ a_builders = [b \in BuilderIds |-> CleanBuilder]
    /\ apc = [t \in Callers |-> "idle"]
    /\ atx = [t \in Callers |-> NoBuilder]
    /\ depth = [t \in Callers |-> 0]
    /\ aexc = [t \in Callers |-> NoOutcome]
    /\ aresult = [t \in Callers |-> NoOutcome]
    /\ alog = [t \in Callers |-> << >>]

AcctInit == AcctInitWith(NumChannels)

\* reply = None
NoReply == 0

HzInit ==
    /\ hpc = [t \in Callers |-> "idle"]
    /\ h_retry_count = [t \in Callers |-> 0]
    /\ h_reply = [t \in Callers |-> NoReply]
    /\ hlog = [t \in Callers |-> << >>]
    /\ hresult = [t \in Callers |-> "none"]

\* tx = None
NoTx == 0

\* self.fee = 100
default_fee == 100

\* Builder.__init__: a builder for a channel key, with sequence=1 and the
\* base class's empty transaction state
BldInit ==
    /\ bld = [ops |-> 0, time_bounds |-> FALSE, memo |-> FALSE, fee |-> default_fee,
              tx |-> NoTx, te |-> FALSE, sigs |-> << >>, sequence |-> 1,
              address |-> "channel_address", key |-> "channel"]
    /\ ledger \in {0, 1}
    /\ bop = "init"
    /\ last_sent = 0

\* no function call under way
FnQuiet == fn_args = "none" /\ fn_done = FALSE /\ fn_ret = "none"

\* no build call made yet
NoInput == [fn |-> "none", address_ok |-> TRUE, amount |-> "ok", memo_ok |-> TRUE]

BuildQuiet == ainp = [t \in Callers |-> NoInput]

\* the builder of SpecBuilder, untouched
BldQuiet == BldInit /\ ledger = 0

\* the base account
BaseAccount == 0

Accounts == {BaseAccount} \cup BuilderIds

\* no transaction
NoTransaction ==
    [tx |-> [source |-> BaseAccount, sequence |-> 0, ops |-> << >>, memo |-> FALSE],
     hash |-> << >>, sigs |-> << >>]

\* no top-up builder signed yet
NoSequence == -1

LedInit ==
    /\ lseq = [a \in Accounts |-> 0]
    /\ bseq = [b \in BuilderIds |-> 1]
    /\ txs = [t \in Callers |-> NoTransaction]
    /\ tub = [t \in Callers |-> NoSequence]
    /\ sent = [t \in Callers |-> << >>]

LedQuiet == LedInit /\ sole_base = FALSE

\* no event taken yet
NoEvent ==
    [event |-> "none", data |-> "none", match |-> << >>, callback_raises |-> FALSE,
     n |-> 0, after_stop |-> FALSE]

\* the SSE client's default retry, in milliseconds
default_retry == 3000

\* the monitor's constructor: the stream is open, the thread started
MonInit ==
    /\ mpc = "next"
    /\ stop_event = FALSE
    /\ retry = default_retry
    /\ stpc = "idle"
    /\ cur = NoEvent
    /\ nev = 0
    /\ failures = 0
    /\ delivered = {}

MonQuiet == MonInit /\ mkind = "single" /\ only_payments = TRUE

\* the account does not exist on the ledger
NoAccount == {"no_account"}

ActInit ==
    /\ kpc = [t \in Callers |-> "idle"]
    /\ kseed_ok = [t \in Callers |-> TRUE]
    /\ kstatus = [t \in Callers |-> "none"]
    /\ kresult = [t \in Callers |-> "none"]
    /\ trust_log = {}

ActQuiet == ActInit /\ balances = NoAccount

AddrInit ==
    /\ mm_stopped = FALSE
    /\ addr_pc = "idle"
    /\ addr_op = [method |-> "none", address |-> 0]
    /\ addr_result = "none"

AddrQuiet == AddrInit /\ addresses = <<1>>

ExtraQuiet == LedQuiet /\ MonQuiet /\ ActQuiet /\ AddrQuiet

AuxInit == BldQuiet /\ FnQuiet /\ BuildQuiet /\ ExtraQuiet

notPoolVars == <<sendVars, acctVars, hzVars, auxVars>>

PoolInit ==
    /\ queue = PoolInitQueue
    /\ pc = [t \in Callers |-> "idle"]
    /\ held = [t \in Callers |-> NoChannel]
    /\ expired = [t \in Callers |-> FALSE]
    /\ putArg = [t \in Callers |-> NoChannel]
    /\ result = [t \in Callers |-> "none"]
    /\ status = [t \in Callers |-> NoStatus]
    /\ out = {}

InitPool == PoolInit /\ SendQuiet /\ AcctInit /\ HzInit /\ AuxInit

\* ChannelManager.get_channel is entered: channel_pool.get(timeout) starts
CallGetChannel(t) ==
    /\ pc[t] = "idle"
    /\ pc' = [pc EXCEPT ![t] = "get"]
    /\ expired' = [expired EXCEPT ![t] = FALSE]
    /\ result' = [result EXCEPT ![t] = "none"]
    /\ UNCHANGED <<queue, held, putArg, status, out>>
    /\ UNCHANGED notPoolVars

\* time passes: the timeout of a blocked get / put elapses
Expire(t) ==
    /\ pc[t] \in {"get", "ctx_put", "put"}
    /\ ~expired[t]
    /\ expired' = [expired EXCEPT ![t] = TRUE]
    /\ UNCHANGED <<queue, pc, held, putArg, result, status, out>>
    /\ UNCHANGED notPoolVars

\* queue.Queue.get with a free channel: _get under the queue's mutex
PoolGet(t) ==
    /\ pc[t] = "get"
    /\ \E selected_channel \in get_free_channels(queue) :
         /\ queue' = PoolGetItem(queue, selected_channel)
         /\ held' = [held EXCEPT ![t] = selected_channel]
         /\ out' = out \cup {selected_channel}
    /\ pc' = [pc EXCEPT ![t] = "body"]
    /\ expired' = [expired EXCEPT ![t] = FALSE]
    /\ UNCHANGED <<putArg, result, status>>
    /\ UNCHANGED notPoolVars

GetTimeout_BeforeQueueCheck(t) ==
    /\ pc[t] = "get"
    /\ expired[t]
    /\ pc' = [pc EXCEPT ![t] = "idle"]
    /\ result' = [result EXCEPT ![t] = "ChannelsBusyError"]
    /\ expired' = [expired EXCEPT ![t] = FALSE]
    /\ UNCHANGED <<queue, held, putArg, status, out>>
    /\ UNCHANGED notPoolVars

\* queue.Queue.get without a free channel when the timeout is over:
\* queue.Empty, which get_channel turns into ChannelsBusyError
GetTimeout(t) ==
    /\ pc[t] = "get"
    /\ qsize(queue) = 0
    /\ expired[t]
    /\ pc' = [pc EXCEPT ![t] = "idle"]
    /\ result' = [result EXCEPT ![t] = "ChannelsBusyError"]
    /\ expired' = [expired EXCEPT ![t] = FALSE]
    /\ UNCHANGED <<queue, held, putArg, status, out>>
    /\ UNCHANGED notPoolVars

\* the body of the with block marks its channel UNDERFUNDED
MarkUnderfunded(t) ==
    /\ pc[t] = "body"
    /\ queue[held[t]] # UNDERFUNDED
    /\ queue' = [queue EXCEPT ![held[t]] = UNDERFUNDED]
    /\ UNCHANGED <<pc, held, expired, putArg, result, status, out>>
    /\ UNCHANGED notPoolVars

\* the with block ends (normally or by an exception of the body) and the
\* finally clause reads the channel's status
ExitContext(t, raised) ==
    /\ pc[t] = "body"
    /\ result' = [result EXCEPT ![t] = IF raised THEN "BodyError" ELSE "ok"]
    /\ IF queue[held[t]] # UNDERFUNDED
       THEN /\ pc' = [pc EXCEPT ![t] = "ctx_put"]
            /\ putArg' = [putArg EXCEPT ![t] = held[t]]
            /\ expired' = [expired EXCEPT ![t] = FALSE]
            /\ UNCHANGED held
       ELSE /\ pc' = [pc EXCEPT ![t] = "idle"]
            /\ held' = [held EXCEPT ![t] = NoChannel]
            /\ UNCHANGED <<putArg, expired>>
    /\ UNCHANGED <<queue, status, out>>
    /\ UNCHANGED notPoolVars

\* ChannelManager.put_channel(channel) called directly
CallPutChannel(t, channel) ==
    /\ pc[t] = "idle"
    /\ pc' = [pc EXCEPT ![t] = "put"]
    /\ putArg' = [putArg EXCEPT ![t] = channel]
    /\ expired' = [expired EXCEPT ![t] = FALSE]
    /\ result' = [result EXCEPT ![t] = "none"]
    /\ UNCHANGED <<queue, held, status, out>>
    /\ UNCHANGED notPoolVars

\* queue.Queue.put when the queue is not full: _put under the mutex
PoolPut(t) ==
    /\ pc[t] \in {"ctx_put", "put"}
    /\ ~PoolIsFull(queue)
    /\ queue' = PoolPutItem(queue, putArg[t])
    /\ out' = out \ {putArg[t]}
    /\ pc' = [pc EXCEPT ![t] = "idle"]
    /\ held' = [held EXCEPT ![t] = NoChannel]
    /\ putArg' = [putArg EXCEPT ![t] = NoChannel]
    /\ result' = [result EXCEPT ![t] = IF pc[t] = "put" THEN "ok" ELSE @]
    /\ expired' = [expired EXCEPT ![t] = FALSE]
    /\ UNCHANGED status
    /\ UNCHANGED notPoolVars

\* queue.Queue.put on a full queue when the timeout is over: queue.Full,
\* which put_channel turns into ChannelsFullError
PutTimeout(t) ==
    /\ pc[t] \in {"ctx_put", "put"}
    /\ PoolIsFull(queue)
    /\ expired[t]
    /\ pc' = [pc EXCEPT ![t] = "idle"]
    /\ held' = [held EXCEPT ![t] = NoChannel]
    /\ putArg' = [putArg EXCEPT ![t] = NoChannel]
    /\ result' = [result EXCEPT ![t] = "ChannelsFullError"]
    /\ expired' = [expired EXCEPT ![t] = FALSE]
    /\ UNCHANGED <<queue, status, out>>
    /\ UNCHANGED notPoolVars

\* ChannelManager.get_status(verbose) computes its dict
GetStatus(t, verbose) ==
    /\ pc[t] = "idle"
    /\ status' = [status EXCEPT ![t] = get_status(queue, verbose)]
    /\ pc' = [pc EXCEPT ![t] = "status"]
    /\ result' = [result EXCEPT ![t] = "none"]
    /\ UNCHANGED <<queue, held, expired, putArg, out>>
    /\ UNCHANGED notPoolVars

\* get_status returns its dict to the caller
ReturnStatus(t) ==
    /\ pc[t] = "status"
    /\ pc' = [pc EXCEPT ![t] = "idle"]
    /\ result' = [result EXCEPT ![t] = "ok"]
    /\ status' = [status EXCEPT ![t] = NoStatus]
    /\ UNCHANGED <<queue, held, expired, putArg, out>>
    /\ UNCHANGED notPoolVars

NextPool ==
    \E t \in Callers :
        \/ CallGetChannel(t)
        \/ Expire(t)
        \/ PoolGet(t)
        \/ GetTimeout(t)
        \/ MarkUnderfunded(t)
        \/ \E raised \in BOOLEAN : ExitContext(t, raised)
        \/ \E channel \in Seeds : CallPutChannel(t, channel)
        \/ PoolPut(t)
        \/ PutTimeout(t)
        \/ \E verbose \in BOOLEAN : GetStatus(t, verbose)
        \/ ReturnStatus(t)

SpecPool == InitPool /\ [][NextPool]_vars

\* ------------------------------------------------------------------------
\* ChannelManager.send_transaction
\* (kin/stellar/channel_manager.py, kin/channel_manager.py)
\* ------------------------------------------------------------------------
notSendVars == <<poolVars, acctVars, hzVars, auxVars>>

\* the replies of the gateway that raise a HorizonError in the channel manager
SendErrors ==
    {HorizonError(TRANSACTION_FAILED, BAD_SEQUENCE, << >>),
     HorizonError(TRANSACTION_FAILED, INSUFFICIENT_BALANCE, << >>),
     HorizonError(INTERNAL_SERVER_ERROR, NoCode, << >>)}

\* source = self.base_address if builder.address != self.base_address else None
OpSource_AlwaysBase(b) == "base"

OpSource(b) == IF base_is_channel /\ b = 1 THEN "none" ELSE "base"

IsRetriedBadSequence_AnyFailure(e, count) ==
    /\ e.kind = "HorizonError"
    /\ e.type = TRANSACTION_FAILED
    /\ count > 0

\* the except HorizonError clause of the stellar variant retries
IsRetriedBadSequence(e, count) ==
    /\ e.kind = "HorizonError"
    /\ e.type = TRANSACTION_FAILED
    /\ e.code = BAD_SEQUENCE
    /\ count > 0

SendRaise_KeepsCount(t, e) ==
    /\ sraised' = [sraised EXCEPT ![t] = e]
    /\ IF variant = "stellar" /\ IsRetriedBadSequence(e, retry_count[t])
       THEN /\ retrying' = [retrying EXCEPT ![t] = TRUE]
            /\ sexc' = [sexc EXCEPT ![t] = NoOutcome]
            /\ UNCHANGED retry_count
       ELSE /\ sexc' = [sexc EXCEPT ![t] = e]
            /\ UNCHANGED <<retrying, retry_count>>

\* how a try block that raised e goes on: the stellar variant's except clause
\* sets retrying and decrements retry_count, everything else propagates
SendRaise(t, e) ==
    /\ sraised' = [sraised EXCEPT ![t] = e]
    /\ IF variant = "stellar" /\ IsRetriedBadSequence(e, retry_count[t])
       THEN /\ retrying' = [retrying EXCEPT ![t] = TRUE]
            /\ retry_count' = [retry_count EXCEPT ![t] = @ - 1]
            /\ sexc' = [sexc EXCEPT ![t] = NoOutcome]
       ELSE /\ sexc' = [sexc EXCEPT ![t] = e]
            /\ UNCHANGED <<retrying, retry_count>>

\* send_transaction(add_ops_fn, memo_text) is called
SendCall(t, memo_text) ==
    /\ spc[t] = "idle"
    /\ spc' = [spc EXCEPT ![t] = "acquire"]
    /\ smemo' = [smemo EXCEPT ![t] = memo_text]
    /\ retry_count' = [retry_count EXCEPT ![t] =
                          IF variant = "stellar" THEN num_retries ELSE 0]
    /\ retrying' = [retrying EXCEPT ![t] = FALSE]
    /\ sexpired' = [sexpired EXCEPT ![t] = FALSE]
    /\ sexc' = [sexc EXCEPT ![t] = NoOutcome]
    /\ sresult' = [sresult EXCEPT ![t] = NoOutcome]
    /\ sraised' = [sraised EXCEPT ![t] = NoOutcome]
    /\ UNCHANGED <<variant, base_is_channel, channel_builders, builders, sbuilder>>
    /\ UNCHANGED notSendVars

\* time passes: CHANNEL_QUEUE_TIMEOUT of a waiting get is over
SendExpire(t) ==
    /\ spc[t] = "acquire"
    /\ ~sexpired[t]
    /\ sexpired' = [sexpired EXCEPT ![t] = TRUE]
    /\ UNCHANGED <<variant, base_is_channel, channel_builders, builders, spc,
                   sbuilder, retry_count, retrying, smemo, sexc, sresult, sraised>>
    /\ UNCHANGED notSendVars

\* builder = self.channel_builders.get(True, CHANNEL_QUEUE_TIMEOUT)
SendAcquire(t) ==
    /\ spc[t] = "acquire"
    /\ channel_builders # << >>
    /\ sbuilder' = [sbuilder EXCEPT ![t] = Head(channel_builders)]
    /\ channel_builders' = Tail(channel_builders)
    /\ retrying' = [retrying EXCEPT ![t] = FALSE]
    /\ sexpired' = [sexpired EXCEPT ![t] = FALSE]
    /\ spc' = [spc EXCEPT ![t] = "build"]
    /\ UNCHANGED <<variant, base_is_channel, builders, retry_count, smemo, sexc,
                   sresult, sraised>>
    /\ UNCHANGED notSendVars

\* queue.Empty after the timeout: raise ChannelsBusyError (the kin variant
\* calls get(True) without a timeout and keeps waiting)
SendAcquireTimeout(t) ==
    /\ spc[t] = "acquire"
    /\ variant = "stellar"
    /\ channel_builders = << >>
    /\ sexpired[t]
    /\ spc' = [spc EXCEPT ![t] = "idle"]
    /\ sexpired' = [sexpired EXCEPT ![t] = FALSE]
    /\ sresult' = [sresult EXCEPT ![t] = Outcome("ChannelsBusyError")]
    /\ retry_count' = [retry_count EXCEPT ![t] = 0]
    /\ retrying' = [retrying EXCEPT ![t] = FALSE]
    /\ smemo' = [smemo EXCEPT ![t] = FALSE]
    /\ UNCHANGED <<variant, base_is_channel, channel_builders, builders, sbuilder,
                   sexc, sraised>>
    /\ UNCHANGED notSendVars

\* add_ops_fn(builder)(source=source) and builder.add_text_memo(memo_text[:28]);
\* either may raise
SendBuild(t, outcome) ==
    /\ spc[t] = "build"
    /\ outcome = "memo_raises" => smemo[t]
    /\ LET b == sbuilder[t] IN
       CASE outcome = "ok" ->
              /\ builders' = [builders EXCEPT
                                ![b].ops = Append(@, OpSource(b)),
                                ![b].memo = smemo[t]]
              /\ spc' = [spc EXCEPT ![t] = "sign"]
              /\ UNCHANGED <<sexc, retrying, retry_count, sraised>>
         [] outcome = "add_ops_raises" ->
              /\ UNCHANGED builders
              /\ spc' = [spc EXCEPT ![t] = "finally"]
              /\ SendRaise(t, Outcome("Exception"))
         [] outcome = "memo_raises" ->
              /\ builders' = [builders EXCEPT ![b].ops = Append(@, OpSource(b))]
              /\ spc' = [spc EXCEPT ![t] = "finally"]
              /\ SendRaise(t, Outcome("Exception"))
    /\ UNCHANGED <<variant, base_is_channel, channel_builders, sbuilder, sexpired,
                   smemo, sresult>>
    /\ UNCHANGED notSendVars

\* builder.sign(), which fetches the sequence from the gateway, and
\* builder.sign(secret=base_key) when the operation source is the base account
SendSign(t, reply) ==
    /\ spc[t] = "sign"
    /\ LET b == sbuilder[t] IN
       IF reply.kind = "ok"
       THEN /\ builders' = [builders EXCEPT
                              ![b].te = TRUE,
                              ![b].sigs = IF OpSource(b) = "base"
                                          THEN <<"channel", "base">>
                                          ELSE <<"channel">>]
            /\ spc' = [spc EXCEPT ![t] = "submit"]
            /\ UNCHANGED <<sexc, retrying, retry_count, sraised>>
       ELSE /\ UNCHANGED builders
            /\ spc' = [spc EXCEPT ![t] = "finally"]
            /\ SendRaise(t, reply)
    /\ UNCHANGED <<variant, base_is_channel, channel_builders, sbuilder, sexpired,
                   smemo, sresult>>
    /\ UNCHANGED notSendVars

\* return builder.submit()
SendSubmit(t, reply) ==
    /\ spc[t] = "submit"
    /\ spc' = [spc EXCEPT ![t] = "finally"]
    /\ IF reply.kind = "ok"
       THEN /\ sexc' = [sexc EXCEPT ![t] = Outcome("hash")]
            /\ UNCHANGED <<retrying, retry_count, sraised>>
       ELSE SendRaise(t, reply)
    /\ UNCHANGED <<variant, base_is_channel, channel_builders, builders, sbuilder,
                   sexpired, smemo, sresult>>
    /\ UNCHANGED notSendVars

SendFinally_OnlyOnSuccess(t) ==
    /\ spc[t] = "finally"
    /\ Len(channel_builders) < num_channels
    /\ builders' = [builders EXCEPT ![sbuilder[t]] = clear(@)]
    /\ channel_builders' = IF sexc[t].kind = "hash"
                           THEN Append(channel_builders, sbuilder[t])
                           ELSE channel_builders
    /\ sbuilder' = [sbuilder EXCEPT ![t] = NoBuilder]
    /\ sraised' = [sraised EXCEPT ![t] = NoOutcome]
    /\ IF retrying[t]
       THEN /\ spc' = [spc EXCEPT ![t] = "acquire"]
            /\ sexpired' = [sexpired EXCEPT ![t] = FALSE]
            /\ UNCHANGED <<sresult, sexc, retry_count, retrying, smemo>>
       ELSE /\ spc' = [spc EXCEPT ![t] = "idle"]
            /\ sresult' = [sresult EXCEPT ![t] = sexc[t]]
            /\ sexc' = [sexc EXCEPT ![t] = NoOutcome]
            /\ retry_count' = [retry_count EXCEPT ![t] = 0]
            /\ retrying' = [retrying EXCEPT ![t] = FALSE]
            /\ smemo' = [smemo EXCEPT ![t] = FALSE]
            /\ UNCHANGED sexpired
    /\ UNCHANGED <<variant, base_is_channel>>
    /\ UNCHANGED notSendVars

\* finally: builder.clear(); self.channel_builders.put(builder); after a
\* retried bad sequence the loop sleeps and goes back to get
SendFinally(t) ==
    /\ spc[t] = "finally"
    /\ Len(channel_builders) < num_channels
    /\ builders' = [builders EXCEPT ![sbuilder[t]] = clear(@)]
    /\ channel_builders' = Append(channel_builders, sbuilder[t])
    /\ sbuilder' = [sbuilder EXCEPT ![t] = NoBuilder]
    /\ sraised' = [sraised EXCEPT ![t] = NoOutcome]
    /\ IF retrying[t]
       THEN /\ spc' = [spc EXCEPT ![t] = "acquire"]
            /\ sexpired' = [sexpired EXCEPT ![t] = FALSE]
            /\ UNCHANGED <<sresult, sexc, retry_count, retrying, smemo>>
       ELSE /\ spc' = [spc EXCEPT ![t] = "idle"]
            /\ sresult' = [sresult EXCEPT ![t] = sexc[t]]
            /\ sexc' = [sexc EXCEPT ![t] = NoOutcome]
            /\ retry_count' = [retry_count EXCEPT ![t] = 0]
            /\ retrying' = [retrying EXCEPT ![t] = FALSE]
            /\ smemo' = [smemo EXCEPT ![t] = FALSE]
            /\ UNCHANGED sexpired
    /\ UNCHANGED <<variant, base_is_channel>>
    /\ UNCHANGED notSendVars

InitSend == SendInit /\ PoolInit /\ AcctInit /\ HzInit /\ AuxInit

NextSend ==
    \E t \in Callers :
        \/ \E memo_text \in BOOLEAN : SendCall(t, memo_text)
        \/ SendExpire(t)
        \/ SendAcquire(t)
        \/ SendAcquireTimeout(t)
        \/ \E outcome \in {"ok", "add_ops_raises", "memo_raises"} : SendBuild(t, outcome)
        \/ \E reply \in {Outcome("ok"), Outcome("Exception")} \cup SendErrors :
              SendSign(t, reply)
        \/ \E reply \in {Outcome("ok"), Outcome("Exception")} \cup SendErrors :
              SendSubmit(t, reply)
        \/ SendFinally(t)

SpecSend == InitSend /\ [][NextSend]_vars

\* ------------------------------------------------------------------------
\* Properties of send_transaction (SpecSend)
\* ------------------------------------------------------------------------
\* how often builder b is in the queue
InQueue(b) == Cardinality({i \in 1..Len(channel_builders) : channel_builders[i] = b})

\* how many callers hold builder b
Holders(b) == Cardinality({t \in Callers : sbuilder[t] = b})

\* C2: every builder taken from channel_builders is cleared and put back
\* exactly once on every exit path: a builder is either once in the queue or
\* held by exactly one call in progress, the builders in the queue are
\* cleared, and when no call is in progress the queue holds all builders.
C2_BuildersReturned ==
    /\ \A b \in DOMAIN builders : InQueue(b) + Holders(b) = 1
    /\ \A t \in Callers : (sbuilder[t] # NoBuilder) <=> (spc[t] \in {"build", "sign", "submit", "finally"})
    /\ \A i \in 1..Len(channel_builders) : builders[channel_builders[i]] = CleanBuilder
    /\ (\A t \in Callers : spc[t] = "idle") =>
            {channel_builders[i] : i \in 1..Len(channel_builders)} = DOMAIN builders

C2_Witness ==
    /\ \A t \in Callers : spc[t] = "idle"
    /\ \E t, u \in Callers :
          /\ sresult[t].kind = "HorizonError"
          /\ sresult[u].kind = "Exception"
    /\ Len(channel_builders) = NumChannels
    /\ DOMAIN builders = BuilderIds

\* C11: once send_transaction has signed, a builder whose address differs
\* from the base address carries its operation with source = base address
\* and exactly two signatures, the channel key's then the base key's; a
\* builder whose address is the base address carries its operation with no
\* explicit source and exactly one signature, the channel key's.
C11_SourceAndSignatures ==
    \A t \in Callers :
        spc[t] = "submit" =>
            LET b == builders[sbuilder[t]]
                address_is_base == base_is_channel /\ sbuilder[t] = 1
            IN
            /\ b.te
            /\ ~address_is_base => b.ops = <<"base">> /\ b.sigs = <<"channel", "base">>
            /\ address_is_base => b.ops = <<"none">> /\ b.sigs = <<"channel">>

C11_Witness ==
    \E t, u \in Callers :
        /\ spc[t] = "submit" /\ spc[u] = "submit"
        /\ base_is_channel
        /\ sbuilder[t] = 1 /\ Len(builders[sbuilder[t]].sigs) = 1
        /\ sbuilder[u] # 1 /\ Len(builders[sbuilder[u]].sigs) = 2

\* the HorizonError of a transaction rejected with tx_bad_seq
BadSequenceError == HorizonError(TRANSACTION_FAILED, BAD_SEQUENCE, << >>)

LiveReplies ==
    {Outcome("ok"), HorizonError(TRANSACTION_FAILED, BAD_SEQUENCE, << >>),
     Outcome("Exception")}

SendStep(t) ==
    \/ SendExpire(t)
    \/ SendAcquire(t)
    \/ SendAcquireTimeout(t)
    \/ \E outcome \in {"ok", "add_ops_raises"} : SendBuild(t, outcome)
    \/ \E reply \in LiveReplies : SendSign(t, reply)
    \/ \E reply \in LiveReplies : SendSubmit(t, reply)
    \/ SendFinally(t)

InitSendLive == InitSend /\ variant = "stellar" /\ base_is_channel = FALSE

NextSendLive ==
    \E t \in Callers :
        \/ SendCall(t, FALSE)
        \/ SendStep(t)

SpecSendLive ==
    /\ InitSendLive
    /\ [][NextSendLive]_vars
    /\ \A t \in Callers : WF_vars(SendStep(t))

\* C21: with every gateway call returning, every call of the stellar
\* send_transaction eventually returns or raises, and every builder taken
\* from channel_builders is eventually back in it.
C21_SendTerminates ==
    /\ \A t \in Callers : (spc[t] # "idle") ~> (spc[t] = "idle")
    /\ \A b \in BuilderIds :
          (b \in DOMAIN builders /\ InQueue(b) = 0) ~> (InQueue(b) = 1)

\* one call gave up waiting with ChannelsBusyError, another is back at the
\* queue after a retried bad sequence, and every builder is in the queue
C21_Witness ==
    \E t, u \in Callers :
        /\ variant = "stellar"
        /\ spc[t] = "idle" /\ sresult[t].kind = "ChannelsBusyError"
        /\ spc[u] = "acquire" /\ retry_count[u] < num_retries
        /\ Len(channel_builders) = num_channels

\* ------------------------------------------------------------------------
\* Error translation (kin/errors.py)
\* ------------------------------------------------------------------------
\* an SdkError of class cls with its error_code
SdkError(cls, error_code) ==
    [kind |-> cls, type |-> "SdkError", code |-> error_code, operations |-> << >>]

\* an exception raised by the translator itself
Raises(cls) ==
    [kind |-> cls, type |-> "raised", code |-> NoCode, operations |-> << >>]

\* op_result_code = op_result_codes[0] raises IndexError on an empty list
translate_operation_error(op_result_codes) ==
    IF op_result_codes = << >> THEN Raises("IndexError") ELSE
    LET op_result_code == op_result_codes[1] IN
    IF op_result_code \in {"op_bad_auth", "op_malformed", "op_no_issuer",
                           "op_line_full", "op_invalid_limit"}
    THEN SdkError("RequestError", op_result_code)
    ELSE IF op_result_code \in {"op_no_source_account", "op_no_destination"}
    THEN SdkError("AccountNotFoundError", op_result_code)
    ELSE IF op_result_code = "op_already_exists"
    THEN SdkError("AccountExistsError", op_result_code)
    ELSE IF op_result_code \in {"op_low_reserve", "op_underfunded"}
    THEN SdkError("LowBalanceError", op_result_code)
    ELSE IF op_result_code \in {"op_src_no_trust", "op_no_trust",
                                "op_src_not_authorized", "op_not_authorized"}
    THEN SdkError("AccountNotActivatedError", op_result_code)
    ELSE SdkError("InternalError", op_result_code)

translate_transaction_error_AllRequestErrors(tx_error) ==
    SdkError("RequestError", tx_error.code)

translate_transaction_error(tx_error) ==
    LET tx_result_code == tx_error.code IN
    IF tx_result_code \in {"tx_too_early", "tx_too_late", "tx_missing_operation",
                           "tx_bad_auth", "tx_bad_auth_extra", BAD_SEQUENCE,
                           "tx_insufficient_fee"}
    THEN SdkError("RequestError", tx_result_code)
    ELSE IF tx_result_code = "tx_no_source_account"
    THEN SdkError("AccountNotFoundError", tx_result_code)
    ELSE IF tx_result_code = INSUFFICIENT_BALANCE
    THEN SdkError("LowBalanceError", tx_result_code)
    ELSE IF tx_result_code = FAILED
    THEN translate_operation_error(tx_error.operations)
    ELSE SdkError("InternalError", tx_result_code)

translate_horizon_error(horizon_error) ==
    IF horizon_error.type = "bad_request"
    THEN SdkError("RequestError", horizon_error.type)
    ELSE IF horizon_error.type = "not_found"
    THEN SdkError("ResourceNotFoundError", horizon_error.type)
    ELSE IF horizon_error.type \in {"forbidden", "not_acceptable",
                                    "unsupported_media_type", "not_implemented",
                                    "before_history", "stale_history"}
    THEN SdkError("RequestError", horizon_error.type)
    ELSE IF horizon_error.type = TRANSACTION_MALFORMED
    THEN SdkError("RequestError", horizon_error.type)
    ELSE IF horizon_error.type = TRANSACTION_FAILED
    THEN translate_transaction_error(horizon_error)
    ELSE IF horizon_error.type \in {"rate_limit_exceeded", "server_over_capacity",
                                    "timeout"}
    THEN SdkError("ServerError", horizon_error.type)
    ELSE IF horizon_error.type = INTERNAL_SERVER_ERROR
    THEN SdkError("InternalError", horizon_error.type)
    ELSE SdkError("InternalError", horizon_error.type)

\* translate_error, for the exceptions that reach it in this model
translate_error(err) ==
    IF err.kind = "RequestException" THEN SdkError("NetworkError", NoCode)
    ELSE IF err.kind = "ChannelsBusyError" THEN SdkError("ThrottleError", NoCode)
    ELSE IF err.kind = "HorizonError" THEN translate_horizon_error(err)
    ELSE SdkError("InternalError", NoCode)

\* ------------------------------------------------------------------------
\* KinAccount.submit_transaction and Transaction.release
\* (kin/account.py, kin/transactions.py)
\* ------------------------------------------------------------------------
\* the gateway answers tx_insufficient_balance at most MaxTopUps times to the
\* submissions of one submit_transaction call
MaxTopUps == 2

notAcctVars == <<poolVars, sendVars, hzVars, auxVars>>

Range(seq) == {seq[i] : i \in 1..Len(seq)}

\* list.remove: removes the first occurrence
ListRemove(seq, x) ==
    LET i == CHOOSE k \in 1..Len(seq) :
                 seq[k] = x /\ \A j \in 1..(k - 1) : seq[j] # x
    IN SubSeq(seq, 1, i - 1) \o SubSeq(seq, i + 1, Len(seq))

\* the HorizonError replies of the gateway to a submission
SubmitErrors ==
    {HorizonError(TRANSACTION_FAILED, INSUFFICIENT_BALANCE, << >>),
     HorizonError(TRANSACTION_FAILED, BAD_SEQUENCE, << >>),
     HorizonError(TRANSACTION_FAILED, FAILED, <<"op_underfunded">>),
     HorizonError(TRANSACTION_MALFORMED, NoCode, << >>),
     HorizonError(INTERNAL_SERVER_ERROR, NoCode, << >>)}

SubmitReplies == {Outcome("ok"), Outcome("RequestException")} \cup SubmitErrors

\* what _top_up's sign and submit can end with: nothing, a HorizonError or
\* another exception
TopUpReplies ==
    {Outcome("ok"), Outcome("RequestException"),
     HorizonError(TRANSACTION_FAILED, BAD_SEQUENCE, << >>)}

IsInsufficientBalance_AnyFailure(e) ==
    e.kind = "HorizonError" /\ e.type = TRANSACTION_FAILED

\* the condition of submit_transaction's except clause
IsInsufficientBalance(e) ==
    /\ e.kind = "HorizonError"
    /\ e.type = TRANSACTION_FAILED
    /\ e.code = INSUFFICIENT_BALANCE

\* a builder with the operations, memo and signatures of a built transaction
BuiltBuilder == [ops |-> <<"base">>, memo |-> TRUE, sigs |-> <<"channel", "base">>,
                 te |-> TRUE]

\* channel_manager.build_transaction and Transaction(builder, channel_manager):
\* takes a builder from the queue, attaches the operation and memo and signs
AcctBuildAt(t, at) ==
    /\ apc[t] = at
    /\ a_channel_builders # << >>
    /\ atx' = [atx EXCEPT ![t] = Head(a_channel_builders)]
    /\ a_channel_builders' = Tail(a_channel_builders)
    /\ a_builders' = [a_builders EXCEPT ![Head(a_channel_builders)] = BuiltBuilder]
    /\ apc' = [apc EXCEPT ![t] = "built"]
    /\ aresult' = [aresult EXCEPT ![t] = NoOutcome]
    /\ alog' = [alog EXCEPT ![t] = << >>]
    /\ UNCHANGED <<low_balance_builders, depth, aexc>>
    /\ UNCHANGED notAcctVars

\* a build call with valid arguments
AcctBuild(t) == AcctBuildAt(t, "idle")

\* channel_manager.build_transaction finds no builder until its timeout
AcctBuildBusyAt(t, at) ==
    /\ apc[t] = at
    /\ a_channel_builders = << >>
    /\ aresult' = [aresult EXCEPT ![t] = Outcome("ChannelsBusyError")]
    /\ atx' = [atx EXCEPT ![t] = NoBuilder]
    /\ alog' = [alog EXCEPT ![t] = << >>]
    /\ apc' = [apc EXCEPT ![t] = "idle"]
    /\ UNCHANGED <<a_channel_builders, low_balance_builders, a_builders, depth, aexc>>
    /\ UNCHANGED notAcctVars

AcctBuildBusy(t) == AcctBuildBusyAt(t, "idle")

\* the caller gives the transaction up: tx.release() without submitting
AcctReleaseCall(t) ==
    /\ apc[t] = "built"
    /\ apc' = [apc EXCEPT ![t] = "release"]
    /\ aexc' = [aexc EXCEPT ![t] = Outcome("None")]
    /\ UNCHANGED <<a_channel_builders, low_balance_builders, a_builders, atx, depth,
                   aresult, alog>>
    /\ UNCHANGED notAcctVars

\* submit_transaction(tx) is called
AcctSubmitCall(t) ==
    /\ apc[t] = "built"
    /\ apc' = [apc EXCEPT ![t] = "submit"]
    /\ depth' = [depth EXCEPT ![t] = 0]
    /\ UNCHANGED <<a_channel_builders, low_balance_builders, a_builders, atx, aexc,
                   aresult, alog>>
    /\ UNCHANGED notAcctVars

\* try: return tx.builder.submit()['hash'], and the except clause up to the
\* call of _top_up, whatever the gateway answered before.  A value returned by a re-submission (depth > 0) is
\* dropped by the calling frame, which returns None.
AcctSubmitBody(t, reply) ==
    /\ apc[t] = "submit"
    /\ alog' = [alog EXCEPT ![t] = Append(@, [ev |-> "submit", reply |-> reply])]
    /\ IF reply.kind = "ok"
       THEN /\ aexc' = [aexc EXCEPT ![t] =
                          IF depth[t] = 0 THEN Outcome("hash") ELSE Outcome("None")]
            /\ apc' = [apc EXCEPT ![t] = "release"]
            /\ UNCHANGED low_balance_builders
       ELSE IF reply.kind = "HorizonError"
       THEN IF IsInsufficientBalance(reply)
            THEN /\ low_balance_builders' = Append(low_balance_builders, atx[t])
                 /\ apc' = [apc EXCEPT ![t] = "top_up"]
                 /\ UNCHANGED aexc
            ELSE /\ aexc' = [aexc EXCEPT ![t] = translate_error(reply)]
                 /\ apc' = [apc EXCEPT ![t] = "release"]
                 /\ UNCHANGED low_balance_builders
       ELSE /\ aexc' = [aexc EXCEPT ![t] = reply]
            /\ apc' = [apc EXCEPT ![t] = "release"]
            /\ UNCHANGED low_balance_builders
    /\ UNCHANGED <<a_channel_builders, a_builders, atx, depth, aresult>>
    /\ UNCHANGED notAcctVars

\* a submission whose call is answered tx_insufficient_balance at most
\* MaxTopUps times
AcctSubmit(t, reply) ==
    /\ IsInsufficientBalance(reply) => depth[t] < MaxTopUps
    /\ AcctSubmitBody(t, reply)

AcctTopUp_ThroughPool(t, reply) ==
    /\ apc[t] = "top_up"
    /\ a_channel_builders # << >>
    /\ alog' = [alog EXCEPT ![t] = Append(@, [ev |-> "top_up", reply |-> reply])]
    /\ IF reply.kind = "ok"
       THEN /\ low_balance_builders' = ListRemove(low_balance_builders, atx[t])
            /\ depth' = [depth EXCEPT ![t] = @ + 1]
            /\ apc' = [apc EXCEPT ![t] = "submit"]
            /\ UNCHANGED aexc
       ELSE /\ aexc' = [aexc EXCEPT ![t] = reply]
            /\ apc' = [apc EXCEPT ![t] = "release"]
            /\ UNCHANGED <<low_balance_builders, depth>>
    /\ UNCHANGED <<a_channel_builders, a_builders, atx, aresult>>
    /\ UNCHANGED notAcctVars

\* self._top_up(address), low_balance_builders.remove(tx.builder) and the
\* call of submit_transaction(tx, is_re_submitting=True); an exception of
\* _top_up leaves the except clause before the remove
AcctTopUp(t, reply) ==
    /\ apc[t] = "top_up"
    /\ alog' = [alog EXCEPT ![t] = Append(@, [ev |-> "top_up", reply |-> reply])]
    /\ IF reply.kind = "ok"
       THEN /\ low_balance_builders' = ListRemove(low_balance_builders, atx[t])
            /\ depth' = [depth EXCEPT ![t] = @ + 1]
            /\ apc' = [apc EXCEPT ![t] = "submit"]
            /\ UNCHANGED aexc
       ELSE /\ aexc' = [aexc EXCEPT ![t] = reply]
            /\ apc' = [apc EXCEPT ![t] = "release"]
            /\ UNCHANGED <<low_balance_builders, depth>>
    /\ UNCHANGED <<a_channel_builders, a_builders, atx, aresult>>
    /\ UNCHANGED notAcctVars

\* finally: if not is_re_submitting: tx.release() -- Transaction.release
\* clears the builder and puts it into the queue unless it is in
\* low_balance_builders; then the call ends
AcctRelease(t) ==
    /\ apc[t] = "release"
    /\ Len(a_channel_builders) < NumChannels
    /\ a_builders' = [a_builders EXCEPT ![atx[t]] = clear(@)]
    /\ a_channel_builders' =
          IF atx[t] \notin Range(low_balance_builders)
          THEN Append(a_channel_builders, atx[t])
          ELSE a_channel_builders
    /\ apc' = [apc EXCEPT ![t] = "idle"]
    /\ aresult' = [aresult EXCEPT ![t] = aexc[t]]
    /\ aexc' = [aexc EXCEPT ![t] = NoOutcome]
    /\ depth' = [depth EXCEPT ![t] = 0]
    /\ UNCHANGED <<low_balance_builders, atx, alog>>
    /\ UNCHANGED notAcctVars

InitAccount == AcctInit /\ PoolInit /\ SendQuiet /\ HzInit /\ AuxInit

NextAccount ==
    \E t \in Callers :
        \/ AcctBuild(t)
        \/ AcctBuildBusy(t)
        \/ AcctReleaseCall(t)
        \/ AcctSubmitCall(t)
        \/ \E reply \in SubmitReplies : AcctSubmit(t, reply)
        \/ \E reply \in TopUpReplies : AcctTopUp(t, reply)
        \/ AcctRelease(t)

SpecAccount == InitAccount /\ [][NextAccount]_vars

\* ------------------------------------------------------------------------
\* Properties of submit_transaction (SpecAccount)
\* ------------------------------------------------------------------------
\* the gateway replies of a call that is topped up once and then succeeds
TopUpThenSuccess ==
    <<[ev |-> "submit",
       reply |-> HorizonError(TRANSACTION_FAILED, INSUFFICIENT_BALANCE, << >>)],
      [ev |-> "top_up", reply |-> Outcome("ok")],
      [ev |-> "submit", reply |-> Outcome("ok")]>>

\* C3: submit_transaction returns the transaction's builder to
\* channel_builders on every exit path, an exception of the top-up included:
\* when the call ends the builder is in the queue and not in
\* low_balance_builders.
C3_BuilderReturned ==
    [][\A t \in Callers :
        (apc[t] = "release" /\ apc'[t] = "idle") =>
            /\ atx[t] \in Range(a_channel_builders')
            /\ atx[t] \notin Range(low_balance_builders')]_vars

\* C4: a call whose first submission fails with tx_insufficient_balance,
\* whose top-up succeeds and whose resubmission succeeds returns the
\* transaction hash, and its builder ends in the queue and not in
\* low_balance_builders.
C4_TopUpTransparent ==
    \A t \in Callers :
        (apc[t] = "idle" /\ alog[t] = TopUpThenSuccess) =>
            /\ aresult[t] = Outcome("hash")
            /\ atx[t] \in Range(a_channel_builders)
            /\ atx[t] \notin Range(low_balance_builders)

\* C9: a top-up happens only right after a submission that failed with
\* TRANSACTION_FAILED / tx_insufficient_balance, a resubmission only right
\* after a successful top-up, and every other HorizonError of a submission
\* ends the call with the translated error, with no further submission and
\* no top-up.
C9_OnlyInsufficientBalanceRetried ==
    \A t \in Callers : \A i \in 1..Len(alog[t]) :
        LET e == alog[t][i]
            isIB(r) == /\ r.kind = "HorizonError"
                       /\ r.type = "transaction_failed"
                       /\ r.code = "tx_insufficient_balance"
        IN
        /\ e.ev = "top_up" =>
              /\ i > 1
              /\ alog[t][i - 1].ev = "submit"
              /\ isIB(alog[t][i - 1].reply)
        /\ (e.ev = "submit" /\ i > 1) =>
              /\ alog[t][i - 1].ev = "top_up"
              /\ alog[t][i - 1].reply.kind = "ok"
        /\ (e.ev = "submit" /\ e.reply.kind = "HorizonError" /\ ~isIB(e.reply)) =>
              /\ i = Len(alog[t])
              /\ apc[t] \in {"release", "idle"}
              /\ LET ending == IF apc[t] = "release" THEN aexc[t] ELSE aresult[t] IN
                   /\ ending.type = "SdkError"
                   /\ ending = translate_horizon_error(e.reply)

C9_Witness ==
    \E t, u \in Callers :
        /\ apc[t] = "idle"
        /\ alog[t] = <<[ev |-> "submit",
                        reply |-> HorizonError(TRANSACTION_FAILED, BAD_SEQUENCE, << >>)]>>
        /\ aresult[t] = SdkError("RequestError", BAD_SEQUENCE)
        /\ apc[u] = "idle"
        /\ Len(alog[u]) = 3
        /\ alog[u][2].ev = "top_up"
        /\ alog[u][3].reply = HorizonError(INTERNAL_SERVER_ERROR, NoCode, << >>)
        /\ aresult[u] = SdkError("InternalError", INTERNAL_SERVER_ERROR)

\* C17: every error that leaves submit_transaction, its top-up included, is
\* one of the SDK's typed errors: a raw HorizonError or transport exception
\* of the gateway never reaches the caller.
C17_NoRawErrors ==
    \A t \in Callers :
        (apc[t] = "idle" /\ alog[t] # << >>) =>
            aresult[t].kind \notin {"HorizonError", "RequestException"}

\* the next step of a submit_transaction call under way
AcctSubmitStep(t) ==
    \/ \E reply \in SubmitReplies : AcctSubmit(t, reply)
    \/ \E reply \in TopUpReplies : AcctTopUp(t, reply)
    \/ AcctRelease(t)

\* C22: _top_up takes no channel from the pool: a submit_transaction call
\* under way, a top-up included, can always take its next step, also when
\* every channel is taken by other callers, and the top-up step leaves the
\* queue of builders as it is; no state has all callers waiting on the pool.
C22_TopUpOutsidePool ==
    /\ [](\A t \in Callers :
            apc[t] \in {"submit", "top_up", "release"} => ENABLED AcctSubmitStep(t))
    /\ [][\A t \in Callers :
            (apc[t] = "top_up" /\ apc'[t] # "top_up") =>
                /\ a_channel_builders' = a_channel_builders
                /\ atx'[t] = atx[t]]_vars

\* a caller is in the top-up while the other callers hold all other channels
C22_Witness ==
    \E t \in Callers :
        /\ apc[t] = "top_up"
        /\ a_channel_builders = << >>
        /\ \A u \in Callers \ {t} : apc[u] = "built" /\ atx[u] # atx[t]

\* ------------------------------------------------------------------------
\* submit_transaction when the gateway may answer tx_insufficient_balance to
\* every submission (kin/account.py)
\* ------------------------------------------------------------------------
\* the number of nested submit_transaction calls the interpreter's call
\* stack has room for (sys.getrecursionlimit(), scaled down)
RecursionLimit == 3

\* submit_transaction(tx, is_re_submitting=True) has no room on the call
\* stack: RecursionError, which no except clause of the frames below catches
AcctRecursionError(t) ==
    /\ apc[t] = "submit"
    /\ depth[t] = RecursionLimit
    /\ aexc' = [aexc EXCEPT ![t] = Outcome("RecursionError")]
    /\ apc' = [apc EXCEPT ![t] = "release"]
    /\ UNCHANGED <<a_channel_builders, low_balance_builders, a_builders, atx, depth,
                   aresult, alog>>
    /\ UNCHANGED notAcctVars

\* a submission with any answer of the gateway, as long as the call stack
\* has room
AcctSubmitAny(t, reply) ==
    /\ depth[t] < RecursionLimit
    /\ AcctSubmitBody(t, reply)

InitResubmit == InitAccount

NextResubmit ==
    \E t \in Callers :
        \/ AcctBuild(t)
        \/ AcctSubmitCall(t)
        \/ \E reply \in SubmitReplies : AcctSubmitAny(t, reply)
        \/ AcctRecursionError(t)
        \/ \E reply \in TopUpReplies : AcctTopUp(t, reply)
        \/ AcctRelease(t)

SpecResubmit == InitResubmit /\ [][NextResubmit]_vars

\* C30: one submit_transaction call performs a bounded number of top-up and
\* resubmission cycles and then returns or raises: it stops retrying by
\* itself when the gateway answers tx_insufficient_balance to every
\* submission, so no call nests until the call stack is used up.
C30_BoundedCycles ==
    \A t \in Callers : aexc[t].kind # "RecursionError"

\* ------------------------------------------------------------------------
\* Transaction.release called again on a Transaction that was released
\* (kin/transactions.py, kin/account.py)
\* ------------------------------------------------------------------------
\* the caller still has the Transaction of its last call and calls
\* tx.release() on it once more (directly, or through the finally clause of
\* another submit_transaction(tx)): the builder is cleared and, unless it is
\* in low_balance_builders, put into the queue, which raises queue.Full after
\* the timeout when there is no room
AcctReleaseAgain(t) ==
    /\ apc[t] = "idle"
    /\ atx[t] # NoBuilder
    /\ a_builders' = [a_builders EXCEPT ![atx[t]] = clear(@)]
    /\ IF atx[t] \in Range(low_balance_builders)
       THEN /\ UNCHANGED a_channel_builders
            /\ aresult' = [aresult EXCEPT ![t] = Outcome("None")]
       ELSE IF Len(a_channel_builders) < NumChannels
       THEN /\ a_channel_builders' = Append(a_channel_builders, atx[t])
            /\ aresult' = [aresult EXCEPT ![t] = Outcome("None")]
       ELSE /\ UNCHANGED a_channel_builders
            /\ aresult' = [aresult EXCEPT ![t] = Outcome("Full")]
    /\ UNCHANGED <<low_balance_builders, apc, atx, depth, aexc, alog>>
    /\ UNCHANGED notAcctVars

\* the release at the end of a call finds no room in the queue: queue.Full
AcctReleaseFull(t) ==
    /\ apc[t] = "release"
    /\ Len(a_channel_builders) = NumChannels
    /\ atx[t] \notin Range(low_balance_builders)
    /\ a_builders' = [a_builders EXCEPT ![atx[t]] = clear(@)]
    /\ apc' = [apc EXCEPT ![t] = "idle"]
    /\ aresult' = [aresult EXCEPT ![t] = Outcome("Full")]
    /\ aexc' = [aexc EXCEPT ![t] = NoOutcome]
    /\ depth' = [depth EXCEPT ![t] = 0]
    /\ UNCHANGED <<a_channel_builders, low_balance_builders, atx, alog>>
    /\ UNCHANGED notAcctVars

InitRelease == InitAccount

NextRelease ==
    \E t \in Callers :
        \/ AcctBuild(t)
        \/ AcctBuildBusy(t)
        \/ AcctReleaseCall(t)
        \/ AcctSubmitCall(t)
        \/ \E reply \in SubmitReplies : AcctSubmit(t, reply)
        \/ \E reply \in TopUpReplies : AcctTopUp(t, reply)
        \/ AcctRelease(t)
        \/ AcctReleaseAgain(t)
        \/ AcctReleaseFull(t)

SpecRelease == InitRelease /\ [][NextRelease]_vars

\* C37: every builder that sits in channel_builders is clean, and the
\* builder of a transaction that was built and is not yet released carries
\* exactly what its build attached.
C37_QueuedBuildersClean ==
    /\ \A i \in 1..Len(a_channel_builders) :
          a_builders[a_channel_builders[i]] = CleanBuilder
    /\ \A t \in Callers :
          apc[t] \in {"built", "submit", "top_up"} => a_builders[atx[t]] = BuiltBuilder

\* C38: whatever build, submit_transaction and release calls were made,
\* release twice on one Transaction included, each builder is in
\* channel_builders at most once and no two callers hold the same builder.
C38_BuilderQueuedOnce ==
    /\ \A b \in BuilderIds :
          Cardinality({i \in 1..Len(a_channel_builders) : a_channel_builders[i] = b}) <= 1
    /\ \A t, u \in Callers :
          (t # u /\ apc[t] # "idle" /\ apc[u] # "idle") => atx[t] # atx[u]

\* ------------------------------------------------------------------------
\* submit_transaction and _top_up against the ledger's sequence numbers
\* (kin/account.py, kin/transactions.py)
\* ------------------------------------------------------------------------
\* the ledger accepts transactions while an account's sequence is below
\* MaxLedgerSeq
MaxLedgerSeq == 2

notLedVars == <<poolVars, sendVars, hzVars, bldVars, fnVars, ainp, monVars, actVars, addrVars>>

\* builder.address: the account of channel builder b
AccountOf(b) == IF sole_base THEN BaseAccount ELSE b

\* the builder after build_transaction: the operation's source is the base
\* account unless the builder's address is the base address, the channel key
\* signs, and the base key too when the source is set
BuiltBuilderFor(b) ==
    IF AccountOf(b) = BaseAccount
    THEN [ops |-> <<"none">>, memo |-> TRUE, sigs |-> <<"channel">>, te |-> TRUE]
    ELSE BuiltBuilder

\* builder.tx: the body generated from the builder for sequence + 1
TxBody(b) ==
    [source |-> AccountOf(b), sequence |-> bseq[b] + 1,
     ops |-> a_builders[b].ops, memo |-> a_builders[b].memo]

\* Transaction.calculate_tx_hash: sha256 over the network id, the envelope
\* type and the packed transaction body; the signatures are not part of it
calculate_tx_hash(tx) == <<"sha256", tx.source, tx.sequence, tx.ops, tx.memo>>

\* builder.te: the envelope builder.submit() sends
Envelope(b) == [tx |-> TxBody(b), sigs |-> a_builders[b].sigs]

\* how the ledger answers a transaction of account a carrying sequence n:
\* a wrong sequence number is rejected before anything else
SequenceAccepted(a, n) == n = lseq[a] + 1

top_up_sequence_SelfManaged(l) == 1

\* builder.sign() of the builder created in _top_up: get_sequence() of the
\* base account
top_up_sequence(l) == l[BaseAccount]

\* channel_manager.build_transaction and Transaction(builder, channel_manager):
\* a builder is taken from the queue, gets its operation and memo, fetches
\* its account's sequence and signs; the Transaction keeps the hash
LedBuild(t) ==
    /\ apc[t] = "idle"
    /\ a_channel_builders # << >>
    /\ LET b == Head(a_channel_builders) IN
         /\ atx' = [atx EXCEPT ![t] = b]
         /\ a_channel_builders' = Tail(a_channel_builders)
         /\ a_builders' = [a_builders EXCEPT ![b] = BuiltBuilderFor(b)]
         /\ bseq' = [bseq EXCEPT ![b] = lseq[AccountOf(b)]]
         /\ txs' = [txs EXCEPT ![t] =
                      LET tx == [source |-> AccountOf(b),
                                 sequence |-> lseq[AccountOf(b)] + 1,
                                 ops |-> BuiltBuilderFor(b).ops,
                                 memo |-> BuiltBuilderFor(b).memo]
                      IN [tx |-> tx, hash |-> calculate_tx_hash(tx),
                          sigs |-> BuiltBuilderFor(b).sigs]]
    /\ apc' = [apc EXCEPT ![t] = "built"]
    /\ aresult' = [aresult EXCEPT ![t] = NoOutcome]
    /\ tub' = [tub EXCEPT ![t] = NoSequence]
    /\ sent' = [sent EXCEPT ![t] = << >>]
    /\ UNCHANGED <<low_balance_builders, depth, aexc, alog, sole_base, lseq>>
    /\ UNCHANGED notLedVars

LedSubmit_Rebuilds(t, answer) ==
    /\ apc[t] = "submit"
    /\ LET b == atx[t]
           e == [tx |-> [TxBody(b) EXCEPT !.sequence = lseq[AccountOf(b)] + 1],
                 sigs |-> a_builders[b].sigs]
           a == e.tx.source
       IN
       /\ (answer = BAD_SEQUENCE) <=> ~SequenceAccepted(a, e.tx.sequence)
       /\ answer = "ok" => lseq[a] < MaxLedgerSeq
       /\ sent' = [sent EXCEPT ![t] = Append(@, e)]
       /\ bseq' = [bseq EXCEPT ![b] = lseq[AccountOf(b)]]
       /\ lseq' = IF answer = "ok" THEN [lseq EXCEPT ![a] = @ + 1] ELSE lseq
       /\ IF answer = "ok"
          THEN /\ aexc' = [aexc EXCEPT ![t] =
                             IF depth[t] = 0 THEN Outcome("hash") ELSE Outcome("None")]
               /\ apc' = [apc EXCEPT ![t] = "release"]
               /\ UNCHANGED low_balance_builders
          ELSE IF answer = INSUFFICIENT_BALANCE
          THEN /\ low_balance_builders' = Append(low_balance_builders, b)
               /\ apc' = [apc EXCEPT ![t] = "top_up"]
               /\ UNCHANGED aexc
          ELSE /\ aexc' = [aexc EXCEPT ![t] =
                             translate_error(HorizonError(TRANSACTION_FAILED, answer, << >>))]
               /\ apc' = [apc EXCEPT ![t] = "release"]
               /\ UNCHANGED low_balance_builders
    /\ UNCHANGED <<a_channel_builders, a_builders, atx, depth, aresult, alog,
                   sole_base, txs, tub>>
    /\ UNCHANGED notLedVars

\* try: return tx.builder.submit()['hash'], and the except clause up to the
\* call of _top_up; the ledger answers the envelope the builder holds
LedSubmit(t, answer) ==
    /\ apc[t] = "submit"
    /\ LET b == atx[t]
           e == Envelope(b)
           a == e.tx.source
       IN
       /\ (answer = BAD_SEQUENCE) <=> ~SequenceAccepted(a, e.tx.sequence)
       /\ answer = "ok" => lseq[a] < MaxLedgerSeq
       /\ sent' = [sent EXCEPT ![t] = Append(@, e)]
       /\ lseq' = IF answer = "ok" THEN [lseq EXCEPT ![a] = @ + 1] ELSE lseq
       /\ IF answer = "ok"
          THEN /\ aexc' = [aexc EXCEPT ![t] =
                             IF depth[t] = 0 THEN Outcome("hash") ELSE Outcome("None")]
               /\ apc' = [apc EXCEPT ![t] = "release"]
               /\ UNCHANGED low_balance_builders
          ELSE IF answer = INSUFFICIENT_BALANCE
          THEN /\ low_balance_builders' = Append(low_balance_builders, b)
               /\ apc' = [apc EXCEPT ![t] = "top_up"]
               /\ UNCHANGED aexc
          ELSE /\ aexc' = [aexc EXCEPT ![t] =
                             translate_error(HorizonError(TRANSACTION_FAILED, answer, << >>))]
               /\ apc' = [apc EXCEPT ![t] = "release"]
               /\ UNCHANGED low_balance_builders
    /\ UNCHANGED <<a_channel_builders, a_builders, atx, depth, aresult, alog,
                   sole_base, bseq, txs, tub>>
    /\ UNCHANGED notLedVars

\* _top_up: Builder(network, horizon, base seed), append_payment_op(address, 1)
\* and builder.sign(), which reads the base account's sequence
LedTopUpSign(t) ==
    /\ apc[t] = "top_up"
    /\ apc' = [apc EXCEPT ![t] = "tu_submit"]
    /\ tub' = [tub EXCEPT ![t] = top_up_sequence(lseq)]
    /\ UNCHANGED <<a_channel_builders, low_balance_builders, a_builders, atx, depth,
                   aexc, aresult, alog, sole_base, lseq, bseq, txs, sent>>
    /\ UNCHANGED notLedVars

\* _top_up: builder.submit(); then low_balance_builders.remove(tx.builder) and
\* the call of submit_transaction(tx, is_re_submitting=True); a HorizonError
\* of the top-up leaves the except clause as it is
LedTopUpSubmit(t, answer) ==
    /\ apc[t] = "tu_submit"
    /\ (answer = BAD_SEQUENCE) <=> ~SequenceAccepted(BaseAccount, tub[t] + 1)
    /\ answer = "ok" => lseq[BaseAccount] < MaxLedgerSeq
    /\ IF answer = "ok"
       THEN /\ lseq' = [lseq EXCEPT ![BaseAccount] = @ + 1]
            /\ low_balance_builders' = ListRemove(low_balance_builders, atx[t])
            /\ depth' = [depth EXCEPT ![t] = @ + 1]
            /\ apc' = [apc EXCEPT ![t] = "submit"]
            /\ UNCHANGED aexc
       ELSE /\ aexc' = [aexc EXCEPT ![t] = HorizonError(TRANSACTION_FAILED, answer, << >>)]
            /\ apc' = [apc EXCEPT ![t] = "release"]
            /\ UNCHANGED <<lseq, low_balance_builders, depth>>
    /\ UNCHANGED <<a_channel_builders, a_builders, atx, aresult, alog, sole_base,
                   bseq, txs, tub, sent>>
    /\ UNCHANGED notLedVars

\* finally: if not is_re_submitting: tx.release() -- Transaction.release
\* clears the builder and puts it into the queue unless it is in
\* low_balance_builders; the call ends and its Transaction is dropped
LedRelease(t) ==
    /\ apc[t] = "release"
    /\ Len(a_channel_builders) < NumChannels
    /\ a_builders' = [a_builders EXCEPT ![atx[t]] = clear(@)]
    /\ a_channel_builders' =
          IF atx[t] \notin Range(low_balance_builders)
          THEN Append(a_channel_builders, atx[t])
          ELSE a_channel_builders
    /\ apc' = [apc EXCEPT ![t] = "idle"]
    /\ aresult' = [aresult EXCEPT ![t] = aexc[t]]
    /\ aexc' = [aexc EXCEPT ![t] = NoOutcome]
    /\ depth' = [depth EXCEPT ![t] = 0]
    /\ txs' = [txs EXCEPT ![t] = NoTransaction]
    /\ tub' = [tub EXCEPT ![t] = NoSequence]
    /\ sent' = [sent EXCEPT ![t] = << >>]
    /\ UNCHANGED <<low_balance_builders, atx, alog, sole_base, lseq, bseq>>
    /\ UNCHANGED notLedVars

\* what the ledger can answer to a submission
LedgerAnswers == {"ok", INSUFFICIENT_BALANCE, BAD_SEQUENCE, "tx_bad_auth"}

\* KinAccount.__init__: the base seed as the only channel, or NumChannels
\* channel seeds of their own
InitLedger ==
    /\ sole_base \in BOOLEAN
    /\ AcctInitWith(IF sole_base THEN 1 ELSE NumChannels)
    /\ LedInit
    /\ PoolInit /\ SendQuiet /\ HzInit /\ BldQuiet /\ FnQuiet /\ BuildQuiet
    /\ MonQuiet /\ ActQuiet /\ AddrQuiet

NextLedger ==
    \E t \in Callers :
        \/ LedBuild(t)
        \/ AcctSubmitCall(t)
        \/ \E answer \in LedgerAnswers : LedSubmit(t, answer)
        \/ LedTopUpSign(t)
        \/ \E answer \in LedgerAnswers : LedTopUpSubmit(t, answer)
        \/ LedRelease(t)

SpecLedger == InitLedger /\ [][NextLedger]_vars

\* ------------------------------------------------------------------------
\* Properties of submit_transaction against the ledger (SpecLedger)
\* ------------------------------------------------------------------------
\* C23: two concurrent submit_transaction calls that hold different channels
\* and both hit tx_insufficient_balance can sign their top-ups with the same
\* base-account sequence, and then one of the two top-ups is rejected with
\* tx_bad_seq: every top-up signs with the sequence the ledger holds at that
\* moment, an accepted top-up makes every other top-up signed with the same
\* sequence unacceptable, and a top-up is rejected with tx_bad_seq only when
\* the base account's sequence has moved on since it signed.
C23_TopUpRace ==
    [][\A t \in Callers :
        /\ (apc[t] = "top_up" /\ apc'[t] = "tu_submit") =>
              tub'[t] = lseq[BaseAccount]
        /\ (apc[t] = "tu_submit" /\ apc'[t] = "submit") =>
              \A u \in Callers \ {t} :
                  (apc[u] = "tu_submit" /\ tub[u] = tub[t]) =>
                      ~SequenceAccepted(BaseAccount, tub[u] + 1)'
        /\ (apc[t] = "tu_submit" /\ apc'[t] = "release"
              /\ aexc'[t] = HorizonError(TRANSACTION_FAILED, BAD_SEQUENCE, << >>)) =>
              lseq[BaseAccount] > tub[t]]_vars

\* both callers hit tx_insufficient_balance on different channels and signed
\* their top-ups with the same sequence; one top-up was accepted, the other
\* rejected with tx_bad_seq
C23_Witness ==
    \E t, u \in Callers :
        /\ ~sole_base
        /\ atx[t] # atx[u]
        /\ tub[t] # NoSequence /\ tub[t] = tub[u]
        /\ apc[t] = "submit" /\ depth[t] = 1
        /\ apc[u] = "release"
        /\ aexc[u] = HorizonError(TRANSACTION_FAILED, BAD_SEQUENCE, << >>)

\* the envelope of caller t's Transaction as it was created
CreatedEnvelope(t) == [tx |-> txs[t].tx, sigs |-> txs[t].sigs]

\* C24: from the creation of a Transaction until submit_transaction ends,
\* across top-up and resubmission, the builder's operations, memo, sequence
\* and signatures stay as they were, and every submission sends the same
\* envelope, whose hash is the Transaction.hash computed at creation.
C24_SameEnvelope ==
    \A t \in Callers :
        apc[t] \in {"built", "submit", "top_up", "tu_submit", "release"} =>
            /\ Envelope(atx[t]) = CreatedEnvelope(t)
            /\ \A i \in 1..Len(sent[t]) :
                  /\ sent[t][i] = CreatedEnvelope(t)
                  /\ calculate_tx_hash(sent[t][i].tx) = txs[t].hash

\* a call that was topped up and whose resubmission was accepted
C24_Witness ==
    \E t \in Callers :
        /\ apc[t] = "release"
        /\ Len(sent[t]) = 2
        /\ aexc[t] = Outcome("None")

\* C25: when a submission fails with tx_insufficient_balance, the ledger's
\* sequence number of the transaction's source account is at resubmission
\* what it was at signing, in every channel configuration, the base account
\* as its own sole channel included.
C25_SequenceUnchanged ==
    \A t \in Callers :
        (apc[t] = "submit" /\ depth[t] > 0) =>
            lseq[txs[t].tx.source] + 1 = txs[t].tx.sequence

\* ------------------------------------------------------------------------
\* Horizon.submit (kin/blockchain/horizon.py)
\* ------------------------------------------------------------------------
notHzVars == <<poolVars, sendVars, acctVars, auxVars>>

\* Retry.RETRY_AFTER_STATUS_CODES and 504
status_forcelist == {413, 429, 503, 504}

\* what one POST can end with: session.post raises a RequestException, or a
\* response arrives with a status and a body that is a result, a problem
\* document (it has a 'status' key) or not JSON at all
PostOutcomes ==
    {[raises |-> TRUE, status |-> NoReply, body |-> "none"],
     [raises |-> FALSE, status |-> 200, body |-> "result"],
     [raises |-> FALSE, status |-> 400, body |-> "problem"],
     [raises |-> FALSE, status |-> 200, body |-> "garbage"],
     [raises |-> FALSE, status |-> 500, body |-> "garbage"],
     [raises |-> FALSE, status |-> 503, body |-> "garbage"]}

\* the truth value of reply: None is false, a Response is true when its
\* status is below 400
ReplyTruthy(reply) == reply # NoReply /\ reply < 400

RetriesExhausted_OffByOne(count) == count <= 1

RetriesExhausted_Never(count) == FALSE

\* if retry_count <= 0: raise
RetriesExhausted(count) == count <= 0

\* submit(te) is called: reply = None, retry_count = self.num_retries
HzCall(t) ==
    /\ hpc[t] = "idle"
    /\ hpc' = [hpc EXCEPT ![t] = "post"]
    /\ h_retry_count' = [h_retry_count EXCEPT ![t] = num_retries]
    /\ h_reply' = [h_reply EXCEPT ![t] = NoReply]
    /\ hlog' = [hlog EXCEPT ![t] = << >>]
    /\ hresult' = [hresult EXCEPT ![t] = "none"]
    /\ UNCHANGED notHzVars

\* one pass of the loop body: the POST, reply.json(), check_horizon_reply and
\* the except clause up to the sleep
HzPost(t, o) ==
    /\ hpc[t] = "post"
    /\ hlog' = [hlog EXCEPT ![t] = Append(@, o)]
    /\ LET reply == IF o.raises THEN h_reply[t] ELSE o.status IN
       /\ h_reply' = [h_reply EXCEPT ![t] = reply]
       /\ IF ~o.raises /\ o.body = "result"
          THEN /\ hresult' = [hresult EXCEPT ![t] = "result"]
               /\ hpc' = [hpc EXCEPT ![t] = "idle"]
               /\ UNCHANGED h_retry_count
          ELSE IF ~o.raises /\ o.body = "problem"
          THEN /\ hresult' = [hresult EXCEPT ![t] = "HorizonError"]
               /\ hpc' = [hpc EXCEPT ![t] = "idle"]
               /\ UNCHANGED h_retry_count
          ELSE IF ReplyTruthy(reply) /\ reply \notin status_forcelist
          THEN /\ hresult' = [hresult EXCEPT ![t] = "Exception"]
               /\ hpc' = [hpc EXCEPT ![t] = "idle"]
               /\ UNCHANGED h_retry_count
          ELSE IF RetriesExhausted(h_retry_count[t])
          THEN /\ hresult' = [hresult EXCEPT ![t] =
                                 IF o.raises THEN "RequestException" ELSE "ValueError"]
               /\ hpc' = [hpc EXCEPT ![t] = "idle"]
               /\ UNCHANGED h_retry_count
          ELSE /\ h_retry_count' = [h_retry_count EXCEPT ![t] = @ - 1]
               /\ hpc' = [hpc EXCEPT ![t] = "sleep"]
               /\ UNCHANGED hresult
    /\ UNCHANGED notHzVars

\* sleep(self.backoff_factor) ends and the loop starts over
HzSleep(t) ==
    /\ hpc[t] = "sleep"
    /\ hpc' = [hpc EXCEPT ![t] = "post"]
    /\ UNCHANGED <<h_retry_count, h_reply, hlog, hresult>>
    /\ UNCHANGED notHzVars

InitHorizon == HzInit /\ PoolInit /\ SendQuiet /\ AcctInit /\ AuxInit

NextHorizon ==
    \E t \in Callers :
        \/ HzCall(t)
        \/ \E o \in PostOutcomes : HzPost(t, o)
        \/ HzSleep(t)

SpecHorizon == InitHorizon /\ [][NextHorizon]_vars

\* ------------------------------------------------------------------------
\* Properties of Horizon.submit (SpecHorizon)
\* ------------------------------------------------------------------------
\* a POST that failed at the transport level: the request raised, or the
\* reply could not be parsed
TransportFailure(o) == o.raises \/ o.body = "garbage"

\* C10 (as stated): an envelope is POSTed at most once; a transport-level
\* failure of a submission is surfaced to the caller and not retried.
C10_PostedAtMostOnce ==
    \A t \in Callers :
        /\ Len(hlog[t]) <= 1
        /\ (hlog[t] # << >> /\ TransportFailure(hlog[t][1])) =>
              /\ hpc[t] = "idle"
              /\ hresult[t] \in {"RequestException", "ValueError", "Exception"}

\* C10 (amended): an envelope is POSTed at most num_retries + 1 times.  A
\* request exception or an unparsable reply with an error status is retried
\* while retries remain and is surfaced to the caller only by the POST that
\* uses the last one up; an unparsable reply with a success status is
\* surfaced at once as an 'invalid horizon reply' exception; a parsed reply
\* ends the call with the result or a HorizonError and is not retried.
C10_BoundedRetries ==
    \A t \in Callers :
        LET n == Len(hlog[t])
            retried(o) == o.raises \/ (o.body = "garbage" /\ o.status >= 400)
        IN
        /\ n <= num_retries + 1
        /\ \A i \in 1..(n - 1) : retried(hlog[t][i])
        /\ (n > 0 /\ hpc[t] # "idle") => retried(hlog[t][n]) /\ n <= num_retries
        /\ (n > 0 /\ hpc[t] = "idle") =>
              LET o == hlog[t][n] IN
              /\ retried(o) =>
                    /\ n = num_retries + 1
                    /\ hresult[t] = IF o.raises THEN "RequestException"
                                    ELSE "ValueError"
              /\ (~o.raises /\ o.body = "garbage" /\ o.status < 400) =>
                    hresult[t] = "Exception"
              /\ (~o.raises /\ o.body = "result") => hresult[t] = "result"
              /\ (~o.raises /\ o.body = "problem") => hresult[t] = "HorizonError"

C10_Witness ==
    \E t \in Callers :
        /\ hpc[t] = "idle"
        /\ Len(hlog[t]) = num_retries + 1
        /\ hlog[t][1].raises
        /\ hlog[t][Len(hlog[t])].raises
        /\ hresult[t] = "RequestException"

\* Horizon.submit with every POST answered or failed in finite time
\* (request_timeout) and every sleep ending
\* (of the unparsable error replies, which submit treats alike whatever
\* their status, one is kept)
LiveOutcomes == {o \in PostOutcomes : o.status # 500}

HzStep(t) ==
    \/ \E o \in LiveOutcomes : HzPost(t, o)
    \/ HzSleep(t)

NextHorizonLive ==
    \E t \in Callers :
        \/ HzCall(t)
        \/ HzStep(t)

SpecHorizonLive ==
    /\ InitHorizon
    /\ [][NextHorizonLive]_vars
    /\ \A t \in Callers : WF_vars(HzStep(t))

\* C32: Horizon.submit makes at most num_retries + 1 POSTs and then ends; it
\* goes to another POST only after a request exception or an unparsable
\* reply, with a retry left; with no retry left it raises the exception of
\* the last POST; a well-formed error reply raises its HorizonError at once.
C32_SubmitTerminates ==
    /\ \A t \in Callers : (hpc[t] # "idle") ~> (hpc[t] = "idle")
    /\ [](\A t \in Callers :
            /\ Len(hlog[t]) + h_retry_count[t] <= num_retries + 1
            /\ h_retry_count[t] >= 0)
    /\ [][\A t \in Callers : (hpc[t] = "post" /\ hlog'[t] # hlog[t]) =>
            LET o == hlog'[t][Len(hlog'[t])] IN
            /\ hpc'[t] = "sleep" =>
                  /\ TransportFailure(o)
                  /\ h_retry_count[t] > 0
                  /\ h_retry_count'[t] = h_retry_count[t] - 1
            /\ (TransportFailure(o) /\ h_retry_count[t] = 0) =>
                  /\ hpc'[t] = "idle"
                  /\ hresult'[t] \in {"RequestException", "ValueError", "Exception"}
                  /\ o.raises => hresult'[t] = "RequestException"
            /\ (~o.raises /\ o.body = "problem") =>
                  hpc'[t] = "idle" /\ hresult'[t] = "HorizonError"
            /\ hpc'[t] = "idle" => h_retry_count'[t] = h_retry_count[t]]_vars

\* a call answered with a problem document after its POSTs failed until no
\* retry was left
C32_Witness ==
    \E t \in Callers :
        /\ hpc[t] = "idle"
        /\ hresult[t] = "HorizonError"
        /\ Len(hlog[t]) = num_retries + 1
        /\ h_retry_count[t] = 0
        /\ hlog[t][1].raises

\* ------------------------------------------------------------------------
\* Builder (kin/blockchain/builder.py), one builder used serially
\* ------------------------------------------------------------------------
\* sequence numbers stay below MaxSeq, a transaction has at most MaxOps
\* operations
MaxSeq == 3

MaxOps == 2

QuietMain == PoolInit /\ SendQuiet /\ AcctInit /\ HzInit

mainVars == <<poolVars, sendVars, acctVars, hzVars>>

notBldVars == <<mainVars, fnVars, ainp, extraVars>>

builder_clear_KeepsEnvelope(b) ==
    [b EXCEPT !.ops = 0, !.time_bounds = FALSE, !.memo = FALSE,
              !.fee = default_fee, !.tx = NoTx]

\* Builder.clear
builder_clear(b) ==
    [b EXCEPT !.ops = 0, !.time_bounds = FALSE, !.memo = FALSE,
              !.fee = default_fee, !.tx = NoTx, !.te = FALSE, !.sigs = << >>]

\* Builder.next
builder_next(b) == [builder_clear(b) EXCEPT !.sequence = @ + 1]

\* the base class's sign: generates the transaction from the builder's
\* sequence if there is none yet (it carries sequence + 1), wraps it in an
\* envelope that keeps the signatures made so far, and adds the key's
\* signature unless the key has signed already
base_sign(b, key) ==
    [b EXCEPT !.tx = IF b.tx = NoTx THEN b.sequence + 1 ELSE b.tx,
              !.te = TRUE,
              !.sigs = IF \E i \in 1..Len(b.sigs) : b.sigs[i] = key
                       THEN b.sigs ELSE Append(b.sigs, key)]

builder_sign_AlwaysRefreshes(b, secret, reported) ==
    base_sign([b EXCEPT !.sequence = reported],
              IF secret = "none" THEN b.key ELSE secret)

\* Builder.sign(secret): reported is what get_sequence() returns
builder_sign(b, secret, reported) ==
    base_sign(IF secret = "none" THEN [b EXCEPT !.sequence = reported] ELSE b,
              IF secret = "none" THEN b.key ELSE secret)

get_sequence_Stale == IF ledger > 0 THEN ledger - 1 ELSE 0

\* get_sequence(): the gateway reports the account's sequence on the ledger
get_sequence == ledger

\* the caller appends an operation
BdAppendOp ==
    /\ bld.ops < MaxOps
    /\ bld' = [bld EXCEPT !.ops = @ + 1]
    /\ bop' = "append_op"
    /\ UNCHANGED <<ledger, last_sent>>
    /\ UNCHANGED notBldVars

\* the caller sets a memo, time bounds or a fee
BdSet(what) ==
    /\ bld' = CASE what = "memo" -> [bld EXCEPT !.memo = TRUE]
                [] what = "time_bounds" -> [bld EXCEPT !.time_bounds = TRUE]
                [] what = "fee" -> [bld EXCEPT !.fee = 2 * default_fee]
    /\ bop' = "set"
    /\ UNCHANGED <<ledger, last_sent>>
    /\ UNCHANGED notBldVars

\* builder.sign(secret)
BdSign(secret) ==
    /\ bld' = builder_sign(bld, secret, get_sequence)
    /\ bop' = IF secret = "none" THEN "sign" ELSE "sign_secret"
    /\ last_sent' = IF secret = "none" /\ bld.tx = NoTx THEN bld'.tx ELSE last_sent
    /\ UNCHANGED ledger
    /\ UNCHANGED notBldVars

\* builder.sign() whose get_sequence() raises
BdSignFails ==
    /\ bop' = "sign_raises"
    /\ UNCHANGED <<bld, ledger, last_sent>>
    /\ UNCHANGED notBldVars

\* builder.next()
BdNext ==
    /\ bld.sequence < MaxSeq
    /\ bld' = builder_next(bld)
    /\ bop' = "next"
    /\ UNCHANGED <<ledger, last_sent>>
    /\ UNCHANGED notBldVars

\* builder.clear()
BdClear ==
    /\ bld' = builder_clear(bld)
    /\ bop' = "clear"
    /\ UNCHANGED <<ledger, last_sent>>
    /\ UNCHANGED notBldVars

\* builder.submit(): the ledger applies a transaction only if it carries the
\* account's sequence + 1, and then the account's sequence becomes that
\* number; a transaction that is rejected leaves the account as it is
BdSubmit(applied) ==
    /\ bld.te
    /\ applied => bld.tx = ledger + 1 /\ ledger < MaxSeq
    /\ ledger' = IF applied THEN bld.tx ELSE ledger
    /\ bop' = IF applied THEN "submit_applied" ELSE "submit_rejected"
    /\ UNCHANGED <<bld, last_sent>>
    /\ UNCHANGED notBldVars

InitBuilder == BldInit /\ QuietMain /\ FnQuiet /\ BuildQuiet /\ ExtraQuiet

NextBuilder ==
    \/ BdAppendOp
    \/ \E what \in {"memo", "time_bounds", "fee"} : BdSet(what)
    \/ \E secret \in {"none", "base"} : BdSign(secret)
    \/ BdSignFails
    \/ BdNext
    \/ BdClear
    \/ \E applied \in BOOLEAN : BdSubmit(applied)

SpecBuilder == InitBuilder /\ [][NextBuilder]_vars

\* ------------------------------------------------------------------------
\* Properties of the builder (SpecBuilder)
\* ------------------------------------------------------------------------
\* a step in which sign() without a secret generates a new transaction, as
\* every send through the builder does after the clear of the send before
SendSigns == bop' = "sign" /\ bld.tx = NoTx

\* C12 (as stated): each successive signed transaction of the sends through
\* one builder carries a sequence number strictly greater than the previous
\* one's, whether the previous send succeeded or failed.
C12_StrictlyIncreasing ==
    [][SendSigns => bld'.tx > last_sent]_vars

\* C12 (amended): each successive signed transaction carries a sequence
\* number that is not smaller than the previous one's, and strictly greater
\* when the ledger has consumed the previous one's number.
C12_NonDecreasing ==
    [][SendSigns =>
          /\ bld'.tx >= last_sent
          /\ ledger >= last_sent => bld'.tx > last_sent]_vars

C12_Witness ==
    /\ bop = "sign"
    /\ last_sent = 3
    /\ bld.tx = 3
    /\ ledger = 2

C14_ClearResets ==
    [][bop' = "clear" =>
          /\ bld'.ops = 0
          /\ ~bld'.time_bounds
          /\ ~bld'.memo
          /\ bld'.fee = 100
          /\ bld'.tx = 0
          /\ ~bld'.te
          /\ bld'.sigs = << >>
          /\ bld'.sequence = bld.sequence
          /\ bld'.address = bld.address
          /\ bld'.key = bld.key
          /\ bop = "clear" => bld' = bld]_vars

C14_Witness ==
    /\ bop = "clear"
    /\ bld.sequence = 2
    /\ last_sent = 2
    /\ bld.fee = 100
    /\ bld.sigs = << >>

\* ------------------------------------------------------------------------
\* build_memo (kin/transactions.py)
\* ------------------------------------------------------------------------
\* A string is a sequence of characters; "w" stands for a character outside
\* ASCII, which UTF-8 encodes in two bytes.  The memo texts tried are up to
\* MaxMemoAscii ASCII characters followed by up to MaxMemoWide wide ones.
MaxMemoAscii == 22

MaxMemoWide == 2

notFnVars == <<mainVars, bldVars, ainp, extraVars>>

MEMO_CAP == 28

\* MEMO_TEMPLATE.format(app_id), MEMO_TEMPLATE = '1-{}-'
MEMO_TEMPLATE_format(app_id) == <<"1", "-">> \o app_id \o <<"-">>

Rep(c, n) == [i \in 1..n |-> c]

\* the number of bytes of the UTF-8 encoding of s
utf8_len(s) == Len(s) + Cardinality({i \in 1..Len(s) : s[i] = "w"})

\* len(finished_memo) under Python 2, where finished_memo is a byte string,
\* or a unicode object when the memo passed in is one
py2_len(s, is_unicode) == IF is_unicode THEN Len(s) ELSE utf8_len(s)

MemoInputs ==
    [python : {2, 3},
     app_id : {<<"t", "e", "s", "t">>, <<"a", "n", "o", "n">>},
     is_none : {FALSE},
     is_unicode : BOOLEAN,
     memo : {Rep("a", n) \o Rep("w", k) : n \in 0..MaxMemoAscii, k \in 0..MaxMemoWide}]
    \cup
    [python : {2, 3},
     app_id : {<<"t", "e", "s", "t">>, <<"a", "n", "o", "n">>},
     is_none : {TRUE},
     is_unicode : {FALSE},
     memo : {<< >>}]

\* build_memo(app_id, memo) as run by the given Python version
build_memo(a) ==
    LET finished_memo == MEMO_TEMPLATE_format(a.app_id) \o
                             (IF a.is_none THEN << >> ELSE a.memo)
        length == IF a.python = 2 THEN py2_len(finished_memo, a.is_unicode)
                  ELSE utf8_len(finished_memo)
    IN IF length > MEMO_CAP
       THEN [raised |-> "MemoTooLongError", value |-> << >>]
       ELSE [raised |-> "none", value |-> finished_memo]

InitMemo ==
    /\ fn_args \in {a \in MemoInputs : a.python = 3 => a.is_unicode}
    /\ fn_done = FALSE
    /\ fn_ret = "none"
    /\ BldQuiet /\ QuietMain /\ BuildQuiet /\ ExtraQuiet

CallBuildMemo ==
    /\ ~fn_done
    /\ fn_done' = TRUE
    /\ fn_ret' = build_memo(fn_args)
    /\ UNCHANGED fn_args
    /\ UNCHANGED notFnVars

NextMemo == CallBuildMemo

SpecMemo == InitMemo /\ [][NextMemo]_vars

\* C15: build_memo returns exactly "1-" + app_id + "-" + memo (memo empty
\* when None) when that string's UTF-8 encoding has at most 28 bytes and
\* raises MemoTooLongError when it has more; bytes count, not characters.
C15_MemoCapInBytes ==
    fn_done =>
        LET text == <<"1", "-">> \o fn_args.app_id \o <<"-">> \o fn_args.memo
            bytes == Len(text) + Cardinality({i \in 1..Len(text) : text[i] = "w"})
        IN IF bytes <= 28
           THEN fn_ret = [raised |-> "none", value |-> text]
           ELSE fn_ret.raised = "MemoTooLongError"

\* ------------------------------------------------------------------------
\* build_create_account, build_send_kin, build_send_xlm (kin/account.py)
\* ------------------------------------------------------------------------
\* The arguments of a build call: whether the address is well formed, the
\* amount (positive with at most 7 fractional digits, not positive, or with
\* more fractional digits) and whether build_memo accepts the memo.
\* build_create_account makes no check of its starting balance, which is
\* left to the ledger library, so it is tried with a good one only.
BuildInputs ==
    [fn : {"build_send_kin", "build_send_xlm"}, address_ok : BOOLEAN,
     amount : {"ok", "not_positive", "too_precise"}, memo_ok : BOOLEAN]
    \cup
    [fn : {"build_create_account"}, address_ok : BOOLEAN,
     amount : {"ok"}, memo_ok : BOOLEAN]

validate_build_NoAmountCheck(inp) ==
    IF ~inp.address_ok THEN "ValueError"
    ELSE IF ~inp.memo_ok THEN "MemoTooLongError"
    ELSE "ok"

\* the checks of build_create_account and _build_send_asset, and build_memo,
\* which is evaluated as an argument of build_transaction: the first that
\* fails raises
validate_build(inp) ==
    IF ~inp.address_ok THEN "ValueError"
    ELSE IF inp.fn # "build_create_account" /\ inp.amount = "not_positive"
    THEN "ValueError"
    ELSE IF inp.fn # "build_create_account" /\ inp.amount = "too_precise"
    THEN "ValueError"
    ELSE IF ~inp.memo_ok THEN "MemoTooLongError"
    ELSE "ok"

notBuildVars == <<poolVars, sendVars, hzVars, bldVars, fnVars, extraVars>>

\* a build function is called
BuildCall(t, inp) ==
    /\ apc[t] = "idle"
    /\ apc' = [apc EXCEPT ![t] = "validate"]
    /\ ainp' = [ainp EXCEPT ![t] = inp]
    /\ aresult' = [aresult EXCEPT ![t] = NoOutcome]
    /\ atx' = [atx EXCEPT ![t] = NoBuilder]
    /\ alog' = [alog EXCEPT ![t] = << >>]
    /\ UNCHANGED <<a_channel_builders, low_balance_builders, a_builders, depth, aexc>>
    /\ UNCHANGED notBuildVars

\* the function's checks and build_memo: an error ends the call, otherwise
\* channel_manager.build_transaction is called
BuildValidate(t) ==
    /\ apc[t] = "validate"
    /\ IF validate_build(ainp[t]) = "ok"
       THEN /\ apc' = [apc EXCEPT ![t] = "acquire"]
            /\ UNCHANGED aresult
       ELSE /\ apc' = [apc EXCEPT ![t] = "idle"]
            /\ aresult' = [aresult EXCEPT ![t] = Outcome(validate_build(ainp[t]))]
    /\ UNCHANGED <<a_channel_builders, low_balance_builders, a_builders, atx, depth,
                   aexc, alog, ainp>>
    /\ UNCHANGED notBuildVars

InitBuild ==
    /\ \E n \in 1..NumChannels : AcctInitWith(n)
    /\ PoolInit /\ SendQuiet /\ HzInit /\ AuxInit

NextBuild ==
    \E t \in Callers :
        \/ \E inp \in BuildInputs : BuildCall(t, inp)
        \/ BuildValidate(t)
        \/ AcctBuildAt(t, "acquire")
        \/ AcctBuildBusyAt(t, "acquire")
        \/ AcctReleaseCall(t)
        \/ AcctRelease(t)

SpecBuild == InitBuild /\ [][NextBuild]_vars

MaxOpCodes == 2

\* HorizonErrorType, and a type outside it
HorizonErrorTypes ==
    {"bad_request", "before_history", "forbidden", "not_acceptable", "not_found",
     "not_implemented", "rate_limit_exceeded", "server_over_capacity",
     "stale_history", "timeout", "transaction_malformed", "transaction_failed",
     "unsupported_media_type", "server_error"}

\* TransactionResultCode
TransactionResultCodes ==
    {"tx_success", "tx_failed", "tx_too_early", "tx_too_late",
     "tx_missing_operation", "tx_bad_seq", "tx_bad_auth",
     "tx_insufficient_balance", "tx_no_source_account", "tx_insufficient_fee",
     "tx_bad_auth_extra", "tx_internal_error"}

\* the operation result codes translate_operation_error tells apart, and
\* op_success
OperationResultCodes ==
    {"op_success", "op_bad_auth", "op_malformed", "op_no_issuer", "op_line_full",
     "op_invalid_limit", "op_no_source_account", "op_no_destination",
     "op_already_exists", "op_low_reserve", "op_underfunded", "op_src_no_trust",
     "op_no_trust", "op_src_not_authorized", "op_not_authorized"}

OpCodeLists ==
    UNION {[1..n -> OperationResultCodes \cup {"unknown"}] : n \in 0..MaxOpCodes}

\* the HorizonErrors of the gateway: a type; for transaction_failed a
\* transaction result code; for tx_failed the operations' result codes
HorizonErrors ==
    {HorizonError(type, NoCode, << >>) :
        type \in (HorizonErrorTypes \ {"transaction_failed"}) \cup {"unknown"}}
    \cup
    {HorizonError("transaction_failed", code, << >>) :
        code \in (TransactionResultCodes \ {"tx_failed"}) \cup {"unknown"}}
    \cup
    {HorizonError("transaction_failed", "tx_failed", ops) : ops \in OpCodeLists}

InitTranslate ==
    /\ fn_args \in HorizonErrors
    /\ fn_done = FALSE
    /\ fn_ret = "none"
    /\ BldQuiet /\ QuietMain /\ BuildQuiet /\ ExtraQuiet

CallTranslate ==
    /\ ~fn_done
    /\ fn_done' = TRUE
    /\ fn_ret' = translate_horizon_error(fn_args)
    /\ UNCHANGED fn_args
    /\ UNCHANGED notFnVars

NextTranslate == CallTranslate

SpecTranslate == InitTranslate /\ [][NextTranslate]_vars

\* C36: translate_error and translate_horizon_error are total: for every
\* HorizonError, whatever its type, transaction result code and operations
\* result list, the empty list included, they return an SdkError and do not
\* raise.
C36_TranslationTotal ==
    fn_done =>
        /\ fn_ret.type = "SdkError"
        /\ translate_error(fn_args).type = "SdkError"

\* C18: translate_horizon_error gives RequestError for bad_request,
\* forbidden, not_acceptable, unsupported_media_type, not_implemented,
\* before_history, stale_history, transaction_malformed and for tx_too_early,
\* tx_too_late, tx_missing_operation, tx_bad_auth, tx_bad_auth_extra,
\* tx_bad_seq, tx_insufficient_fee; ResourceNotFoundError for not_found;
\* ServerError for rate_limit_exceeded and server_over_capacity;
\* AccountNotFoundError for tx_no_source_account; LowBalanceError for
\* tx_insufficient_balance; InternalError for server_error and for any
\* unknown type or code; the error_code is the type or code that decided.
C18_TranslationTable ==
    fn_done =>
        LET e == fn_args
            is(cls, error_code) ==
                fn_ret.kind = cls /\ fn_ret.type = "SdkError" /\ fn_ret.code = error_code
        IN
        /\ e.type \in {"bad_request", "forbidden", "not_acceptable",
                       "unsupported_media_type", "not_implemented",
                       "before_history", "stale_history", "transaction_malformed"}
              => is("RequestError", e.type)
        /\ e.type = "not_found" => is("ResourceNotFoundError", e.type)
        /\ e.type \in {"rate_limit_exceeded", "server_over_capacity"}
              => is("ServerError", e.type)
        /\ e.type = "server_error" => is("InternalError", e.type)
        /\ e.type = "unknown" => is("InternalError", e.type)
        /\ e.type = "transaction_failed" =>
              /\ e.code \in {"tx_too_early", "tx_too_late", "tx_missing_operation",
                             "tx_bad_auth", "tx_bad_auth_extra", "tx_bad_seq",
                             "tx_insufficient_fee"}
                    => is("RequestError", e.code)
              /\ e.code = "tx_no_source_account" => is("AccountNotFoundError", e.code)
              /\ e.code = "tx_insufficient_balance" => is("LowBalanceError", e.code)
              /\ e.code = "unknown" => is("InternalError", e.code)

C18_Witness ==
    /\ fn_done
    /\ fn_args.type = "transaction_failed"
    /\ fn_args.code = "tx_no_source_account"
    /\ fn_ret.kind = "AccountNotFoundError"
    /\ fn_ret.code = "tx_no_source_account"

\* C19: a tx_failed error with several operation result codes is classified
\* by the last code of the list, which is also the error_code: the list
\* [op_success, op_underfunded] gives LowBalanceError with error_code
\* op_underfunded.
C19_LastOperationCode ==
    (/\ fn_done
     /\ fn_args.type = "transaction_failed"
     /\ fn_args.code = "tx_failed"
     /\ Len(fn_args.operations) > 1) =>
        LET last == fn_args.operations[Len(fn_args.operations)] IN
        /\ fn_ret.code = last
        /\ fn_ret.kind = translate_operation_error(<<last>>).kind
        /\ fn_args.operations = <<"op_success", "op_underfunded">> =>
              fn_ret.kind = "LowBalanceError"

\* ------------------------------------------------------------------------
\* KinAccount.__init__ (kin/account.py) and SDK.__init__ (kin/sdk.py)
\* ------------------------------------------------------------------------
\* the channels argument is None or a number up to MaxChannelsArg
MaxChannelsArg == 2

\* an argument left at its default None; a given value v is <<v>>
NoArg == << >>

\* the channel_secret_keys argument: None or a list of keys, "bad"
\* being a malformed one
KeyLists ==
    {<< >>, <<"k1">>, <<"k1", "k2">>, <<"bad">>, <<"k1", "bad">>}

\* the arguments of a constructor call and the state of the ledger: whether
\* the base account is activated, whether the channel accounts exist and
\* whether the base account has the XLM to create them
InitInputs ==
    [cls : {"KinAccount"}, seed_ok : BOOLEAN, activated : BOOLEAN,
     channels : {NoArg} \cup {<<n>> : n \in 0..MaxChannelsArg},
     channel_secret_keys : {NoArg} \cup {<<l>> : l \in KeyLists},
     create_channels : BOOLEAN, channels_exist : BOOLEAN, enough_xlm : BOOLEAN]
    \cup
    [cls : {"SDK"}, seed_ok : BOOLEAN, activated : BOOLEAN,
     channels : {NoArg},
     channel_secret_keys : {NoArg} \cup {<<l>> : l \in KeyLists},
     create_channels : {FALSE}, channels_exist : BOOLEAN, enough_xlm : {TRUE}]

Constructed(keys) == [raised |-> "none", channel_secret_keys |-> keys]

Raised(err) == [raised |-> err, channel_secret_keys |-> << >>]

\* Keypair.generate_hd_seed(seed, str(channel)) for channel in range(channels)
hd_seeds(n) == [i \in 1..n |-> <<"hd", i - 1>>]

IsBad(keys) == \E i \in 1..Len(keys) : keys[i] = "bad"

\* KinAccount.__init__ (the app id is taken to be well formed)
KinAccount_init(a) ==
    LET keys == IF a.channel_secret_keys # NoArg THEN a.channel_secret_keys[1]
                ELSE IF a.channels # NoArg THEN hd_seeds(a.channels[1])
                ELSE <<"seed">>
        created == a.create_channels
    IN
    IF ~a.seed_ok THEN Raised("ValueError")
    ELSE IF ~a.activated THEN Raised("AccountNotActivatedError")
    ELSE IF a.channels # NoArg /\ a.channel_secret_keys # NoArg
    THEN Raised("ValueError")
    ELSE IF a.create_channels /\ a.channels = NoArg THEN Raised("ValueError")
    ELSE IF a.create_channels /\ keys = <<"seed">> THEN Raised("ValueError")
    ELSE IF a.create_channels /\ ~a.enough_xlm THEN Raised("LowBalanceError")
    ELSE IF IsBad(keys) THEN Raised("ValueError")
    ELSE IF keys # << >> /\ keys # <<"seed">> /\ ~created /\ ~a.channels_exist
    THEN Raised("AccountNotFoundError")
    ELSE Constructed(keys)

\* SDK.__init__ with a secret key
SDK_init(a) ==
    LET given == IF a.channel_secret_keys = NoArg THEN << >>
                 ELSE a.channel_secret_keys[1]
    IN
    IF ~a.seed_ok THEN Raised("ValueError")
    ELSE IF IsBad(given) THEN Raised("ValueError")
    ELSE IF ~a.activated THEN Raised("AccountNotActivatedError")
    ELSE IF given # << >> /\ ~a.channels_exist THEN Raised("AccountNotFoundError")
    ELSE Constructed(IF given # << >> THEN given ELSE <<"seed">>)

InitConstruct ==
    /\ fn_args \in InitInputs
    /\ fn_done = FALSE
    /\ fn_ret = "none"
    /\ BldQuiet /\ QuietMain /\ BuildQuiet /\ ExtraQuiet

CallConstruct ==
    /\ ~fn_done
    /\ fn_done' = TRUE
    /\ fn_ret' = IF fn_args.cls = "KinAccount" THEN KinAccount_init(fn_args)
                 ELSE SDK_init(fn_args)
    /\ UNCHANGED fn_args
    /\ UNCHANGED notFnVars

NextConstruct == CallConstruct

SpecConstruct == InitConstruct /\ [][NextConstruct]_vars

\* C20: a constructed KinAccount or SDK has at least one channel: with no
\* channels supplied its channel list is exactly [base seed], and for every
\* accepted combination of channels, channel_secret_keys and create_channels
\* the channel list is not empty.
C20_AtLeastOneChannel ==
    (fn_done /\ fn_ret.raised = "none") =>
        /\ Len(fn_ret.channel_secret_keys) >= 1
        /\ (fn_args.channels = NoArg /\ fn_args.channel_secret_keys = NoArg) =>
              fn_ret.channel_secret_keys = <<"seed">>

\* ------------------------------------------------------------------------
\* Payment monitors (kin/monitors.py, kin/sdk.py)
\* ------------------------------------------------------------------------
\* the stream yields at most MaxEvents events
MaxEvents == 3

notMonVars == <<mainVars, bldVars, fnVars, ainp, ledVars, actVars, addrVars>>

\* self.sse_client.retry = None
NoRetry == -1

\* what the stream can yield to a monitor of kind k: an event that is not a
\* message, or a message whose data does not decode, decodes to a transaction
\* that cannot be simplified (monitors.py only), or to a transaction with a
\* payment or another operation, from or to watched addresses or not, on which
\* the user's callback raises or not
StreamEvents(k) ==
    {[event |-> "open", data |-> "none", src_watched |-> FALSE, dst_watched |-> FALSE,
      callback_raises |-> FALSE]}
    \cup
    {[event |-> "message", data |-> d, src_watched |-> FALSE, dst_watched |-> FALSE,
      callback_raises |-> FALSE] :
        d \in {"undecodable"} \cup (IF k = "sdk" THEN {} ELSE {"cant_simplify"})}
    \cup
    [event : {"message"}, data : {"payment", "non_payment"},
     src_watched : IF k = "single" THEN {FALSE} ELSE BOOLEAN,
     dst_watched : IF k = "single" THEN {TRUE} ELSE BOOLEAN,
     callback_raises : BOOLEAN]

\* the addresses the processor calls the callback with for a transaction that
\* passed its filters, in order
Callbacks(k, e) ==
    IF k = "single" THEN <<"address">>
    ELSE IF k = "multi"
    THEN (IF e.src_watched THEN <<"source">> ELSE << >>)
         \o (IF e.dst_watched THEN <<"destination">> ELSE << >>)
    ELSE IF e.src_watched THEN <<"source">>
    ELSE IF e.dst_watched THEN <<"destination">>
    ELSE << >>

\* whether the processor's filters let the decoded transaction through
PassesFilter(k, e) ==
    /\ e.data \in {"payment", "non_payment"}
    /\ e.data = "non_payment" => (k = "sdk" /\ ~only_payments)

\* for event in self.sse_client: the stream yields its next event
MonNext(e) ==
    /\ mpc = "next"
    /\ nev < MaxEvents
    /\ cur' = [event |-> e.event, data |-> e.data, src_watched |-> e.src_watched,
               dst_watched |-> e.dst_watched, callback_raises |-> e.callback_raises,
               n |-> nev + 1, after_stop |-> stop_event]
    /\ nev' = nev + 1
    /\ mpc' = "check"
    /\ UNCHANGED <<mkind, only_payments, stop_event, retry, stpc, failures, delivered>>
    /\ UNCHANGED notMonVars

\* the connection is lost and the SSE client sleeps retry / 1000 seconds before
\* it connects again: with retry = None a TypeError, which ends the thread
MonReconnect ==
    /\ mpc = "next"
    /\ mpc' = IF retry = NoRetry THEN "done" ELSE "next"
    /\ UNCHANGED <<mkind, only_payments, stop_event, retry, stpc, cur, nev, failures,
                   delivered>>
    /\ UNCHANGED notMonVars

MonCheck_NoStopCheck ==
    /\ mpc = "check"
    /\ mpc' = IF cur.event # "message" THEN "next" ELSE "process"
    /\ UNCHANGED <<mkind, only_payments, stop_event, retry, stpc, cur, nev, failures,
                   delivered>>
    /\ UNCHANGED notMonVars

\* if stop_event.is_set(): return; if event.event != 'message': continue
\* (the SDK's processor has no stop event)
MonCheck ==
    /\ mpc = "check"
    /\ mpc' = IF mkind # "sdk" /\ stop_event THEN "done"
              ELSE IF cur.event # "message" THEN "next"
              ELSE "process"
    /\ UNCHANGED <<mkind, only_payments, stop_event, retry, stpc, cur, nev, failures,
                   delivered>>
    /\ UNCHANGED notMonVars

\* the callback invocations of the current event: all of Callbacks, or only
\* the first when the callback raises
Invocations ==
    LET cbs == Callbacks(mkind, cur)
        made == IF cur.callback_raises /\ cbs # << >> THEN <<cbs[1]>> ELSE cbs
    IN {[n |-> cur.n, address |-> made[i], data |-> cur.data,
         after_stop |-> cur.after_stop, failures |-> failures] : i \in 1..Len(made)}

MonProcess_RaisesOut ==
    /\ mpc = "process"
    /\ IF cur.data = "undecodable"
       THEN /\ failures' = failures + 1
            /\ mpc' = "done"
            /\ UNCHANGED delivered
       ELSE IF ~PassesFilter(mkind, cur)
       THEN /\ mpc' = "next"
            /\ UNCHANGED <<failures, delivered>>
       ELSE /\ delivered' = delivered \cup Invocations
            /\ failures' = IF cur.callback_raises /\ Invocations # {}
                           THEN failures + 1 ELSE failures
            /\ mpc' = IF cur.callback_raises /\ Invocations # {} THEN "done" ELSE "next"
    /\ UNCHANGED <<mkind, only_payments, stop_event, retry, stpc, cur, nev>>
    /\ UNCHANGED notMonVars

\* the body of the inner try: json.loads, the transaction's decoding, the
\* filters and the callback; except Exception: logger.exception(ex); continue
MonProcess ==
    /\ mpc = "process"
    /\ IF cur.data = "undecodable"
       THEN /\ failures' = failures + 1
            /\ UNCHANGED delivered
       ELSE IF ~PassesFilter(mkind, cur)
       THEN UNCHANGED <<failures, delivered>>
       ELSE /\ delivered' = delivered \cup Invocations
            /\ failures' = IF cur.callback_raises /\ Invocations # {}
                           THEN failures + 1 ELSE failures
    /\ mpc' = "next"
    /\ UNCHANGED <<mkind, only_payments, stop_event, retry, stpc, cur, nev>>
    /\ UNCHANGED notMonVars

\* stop(): self.stop_event.set()
MonStopSet ==
    /\ mkind # "sdk"
    /\ stpc = "idle"
    /\ stop_event' = TRUE
    /\ stpc' = "set"
    /\ UNCHANGED <<mkind, only_payments, mpc, retry, cur, nev, failures, delivered>>
    /\ UNCHANGED notMonVars

\* stop(): self.sse_client.retry = None
MonStopRetry ==
    /\ stpc = "set"
    /\ retry' = NoRetry
    /\ stpc' = "done"
    /\ UNCHANGED <<mkind, only_payments, mpc, stop_event, cur, nev, failures, delivered>>
    /\ UNCHANGED notMonVars

InitMonitor ==
    /\ mkind \in {"single", "multi", "sdk"}
    /\ only_payments \in BOOLEAN
    /\ mkind # "sdk" => only_payments
    /\ MonInit
    /\ QuietMain /\ BldQuiet /\ FnQuiet /\ BuildQuiet /\ LedQuiet /\ ActQuiet
    /\ AddrQuiet

NextMonitor ==
    \/ \E e \in StreamEvents(mkind) : MonNext(e)
    \/ MonReconnect
    \/ MonCheck
    \/ MonProcess
    \/ MonStopSet
    \/ MonStopRetry

SpecMonitor == InitMonitor /\ [][NextMonitor]_vars

\* C26: once stop() has set the stop event of a SingleMonitor or MultiMonitor,
\* the processor invokes the callback for no event it takes from the stream
\* afterwards, and the thread ends at the next event the stream yields or
\* when the stream tries to reconnect with retry = None.
C26_StopStopsDelivery ==
    /\ [](\A d \in delivered : ~d.after_stop)
    /\ [](mpc = "process" => ~cur.after_stop)
    /\ [][(mpc = "check" /\ cur.after_stop) => mpc' \in {"check", "done"}]_vars
    /\ [][(mpc = "next" /\ retry = NoRetry /\ mpc' # "next") =>
              (mpc' = "done" \/ (mpc' = "check" /\ cur'.after_stop))]_vars

\* a payment was delivered, stop() was called, and the thread ended on the
\* next event, a payment to a watched address that was not delivered
C26_Witness ==
    /\ mpc = "done"
    /\ stop_event
    /\ delivered # {}
    /\ cur.after_stop /\ cur.event = "message" /\ cur.data = "payment"
    /\ cur.dst_watched /\ ~cur.callback_raises
    /\ \A d \in delivered : d.n # cur.n

SdkMethods ==
    {"get_address", "get_native_balance", "get_kin_balance", "create_account",
     "monitor_kin_payments", "_trust_asset", "_send_asset"}

\* a call of one of the methods: whether the SDK was created with a secret
\* key, whether the arguments are valid, and what the gateway answers
SdkCalls ==
    [method : SdkMethods, configured : BOOLEAN, address_ok : BOOLEAN,
     amount_ok : BOOLEAN, issuer_ok : BOOLEAN, gateway_ok : BOOLEAN]

\* one statement of a method: what it does and what it raises ("none": nothing)
Stmt(does, raises) == [does |-> does, raises |-> raises]

\* runs the statements in order up to the first that raises: the statements
\* completed and the exception
RECURSIVE RunStmts(_, _)
RunStmts(stmts, did) ==
    IF stmts = << >> THEN [raised |-> "none", did |-> did]
    ELSE IF Head(stmts).raises # "none" THEN [raised |-> Head(stmts).raises, did |-> did]
    ELSE RunStmts(Tail(stmts), Append(did, Head(stmts).does))

\* if not self.base_keypair: raise SdkError('address not configured')
check_configured(a) ==
    Stmt("base_keypair",
         IF a.configured THEN "none" ELSE "SdkError: address not configured")

validate_address(a) ==
    Stmt("is_valid_address", IF a.address_ok THEN "none" ELSE "ValueError")

validate_amount(a) ==
    Stmt("amount", IF a.amount_ok THEN "none" ELSE "ValueError")

validate_issuer(a) ==
    Stmt("issuer", IF a.issuer_ok THEN "none" ELSE "ValueError")

\* a call of the gateway
gateway(a, what) == Stmt(what, IF a.gateway_ok THEN "none" ELSE "HorizonError")

\* channel_manager.send_transaction inside try / except: translate_error
send_transaction(a) ==
    <<Stmt("acquire_channel", "none"),
      Stmt("horizon.submit", IF a.gateway_ok THEN "none" ELSE "SdkError: translated")>>

sdk_send_asset_ValidatesFirst(a) ==
    <<validate_address(a), check_configured(a), validate_amount(a), validate_issuer(a)>>
    \o send_transaction(a)

\* SDK._send_asset
sdk_send_asset(a) ==
    <<check_configured(a), validate_address(a), validate_amount(a), validate_issuer(a)>>
    \o send_transaction(a)

\* the statements each method executes, in order
sdk_method(a) ==
    CASE a.method = "get_address" -> <<check_configured(a)>>
      [] a.method = "get_native_balance" ->
            <<check_configured(a), gateway(a, "horizon.account")>>
      [] a.method = "get_kin_balance" ->
            <<check_configured(a), validate_issuer(a), gateway(a, "horizon.account")>>
      [] a.method = "create_account" ->
            <<check_configured(a), validate_address(a)>> \o send_transaction(a)
      [] a.method = "monitor_kin_payments" ->
            <<check_configured(a), validate_issuer(a), gateway(a, "horizon.account"),
              gateway(a, "horizon.account_transactions"), Stmt("thread.start", "none")>>
      [] a.method = "_trust_asset" ->
            <<check_configured(a), validate_issuer(a)>> \o send_transaction(a)
      [] a.method = "_send_asset" -> sdk_send_asset(a)

InitSdkCall ==
    /\ fn_args \in SdkCalls
    /\ fn_done = FALSE
    /\ fn_ret = "none"
    /\ BldQuiet /\ QuietMain /\ BuildQuiet /\ ExtraQuiet

CallSdkMethod ==
    /\ ~fn_done
    /\ fn_done' = TRUE
    /\ fn_ret' = RunStmts(sdk_method(fn_args), << >>)
    /\ UNCHANGED fn_args
    /\ UNCHANGED notFnVars

NextSdkCall == CallSdkMethod

SpecSdkCall == InitSdkCall /\ [][NextSdkCall]_vars

\* C28: on an SDK created without a secret key, get_address,
\* get_native_balance, get_kin_balance, create_account, monitor_kin_payments,
\* _trust_asset and _send_asset raise SdkError('address not configured')
\* before any other argument is validated, any gateway call is made or any
\* channel is acquired.
C28_NotConfigured ==
    (fn_done /\ ~fn_args.configured) =>
        /\ fn_ret.raised = "SdkError: address not configured"
        /\ fn_ret.did = << >>

\* _send_asset on an unconfigured SDK with an invalid address, amount and issuer
C28_Witness ==
    /\ fn_done
    /\ fn_args.method = "_send_asset"
    /\ ~fn_args.configured /\ ~fn_args.address_ok /\ ~fn_args.amount_ok
    /\ ~fn_args.issuer_ok
    /\ fn_ret.raised = "SdkError: address not configured"

\* ------------------------------------------------------------------------
\* KinClient.activate_account (kin/client.py)
\* ------------------------------------------------------------------------
notActVars == <<mainVars, bldVars, fnVars, ainp, ledVars, monVars, addrVars>>

NOT_CREATED == "NOT_CREATED"

NOT_ACTIVATED == "NOT_ACTIVATED"

ACTIVATED == "ACTIVATED"

get_account_status_AnyBalance(b) ==
    IF b = NoAccount THEN NOT_CREATED ELSE ACTIVATED

\* KinClient.get_account_status: NOT_CREATED when the account is not found,
\* NOT_ACTIVATED when its balances hold no KIN entry, ACTIVATED otherwise
get_account_status(b) ==
    IF b = NoAccount THEN NOT_CREATED
    ELSE IF "KIN" \notin b THEN NOT_ACTIVATED
    ELSE ACTIVATED

\* someone creates the account on the ledger (friendbot, create_account)
LedgerCreates ==
    /\ balances = NoAccount
    /\ balances' = {"XLM"}
    /\ UNCHANGED <<kpc, kseed_ok, kstatus, kresult, trust_log>>
    /\ UNCHANGED notActVars

\* activate_account(seed) is called
ActCall(t, seed_ok) ==
    /\ kpc[t] = "idle"
    /\ kpc' = [kpc EXCEPT ![t] = "check"]
    /\ kseed_ok' = [kseed_ok EXCEPT ![t] = seed_ok]
    /\ kstatus' = [kstatus EXCEPT ![t] = "none"]
    /\ kresult' = [kresult EXCEPT ![t] = "none"]
    /\ UNCHANGED <<balances, trust_log>>
    /\ UNCHANGED notActVars

\* the seed check, get_account_status(address) and the two tests of the
\* status; the gateway may fail to answer the status query
ActCheck(t, gateway_ok) ==
    /\ kpc[t] = "check"
    /\ IF ~kseed_ok[t]
       THEN /\ kresult' = [kresult EXCEPT ![t] = "ValueError"]
            /\ kpc' = [kpc EXCEPT ![t] = "idle"]
            /\ UNCHANGED kstatus
       ELSE IF ~gateway_ok
       THEN /\ kresult' = [kresult EXCEPT ![t] = "NetworkError"]
            /\ kpc' = [kpc EXCEPT ![t] = "idle"]
            /\ UNCHANGED kstatus
       ELSE LET account_status == get_account_status(balances) IN
            /\ kstatus' = [kstatus EXCEPT ![t] = account_status]
            /\ IF account_status = NOT_CREATED
               THEN /\ kresult' = [kresult EXCEPT ![t] = "AccountNotFoundError"]
                    /\ kpc' = [kpc EXCEPT ![t] = "idle"]
               ELSE IF account_status = ACTIVATED
               THEN /\ kresult' = [kresult EXCEPT ![t] = "AccountActivatedError"]
                    /\ kpc' = [kpc EXCEPT ![t] = "idle"]
               ELSE /\ kpc' = [kpc EXCEPT ![t] = "submit"]
                    /\ UNCHANGED kresult
    /\ UNCHANGED <<balances, kseed_ok, trust_log>>
    /\ UNCHANGED notActVars

\* Builder(...), append_trust_op, sign and submit: an accepted trust
\* transaction gives the account its KIN balance
ActSubmit(t, accepted) ==
    /\ kpc[t] = "submit"
    /\ kpc' = [kpc EXCEPT ![t] = "idle"]
    /\ trust_log' = trust_log \cup {[caller |-> t, status |-> kstatus[t]]}
    /\ IF accepted
       THEN /\ balances' = balances \cup {"KIN"}
            /\ kresult' = [kresult EXCEPT ![t] = "hash"]
       ELSE /\ kresult' = [kresult EXCEPT ![t] = "HorizonError"]
            /\ UNCHANGED balances
    /\ UNCHANGED <<kseed_ok, kstatus>>
    /\ UNCHANGED notActVars

InitActivate ==
    /\ balances \in {NoAccount, {"XLM"}, {"XLM", "KIN"}}
    /\ ActInit
    /\ QuietMain /\ BldQuiet /\ FnQuiet /\ BuildQuiet /\ LedQuiet /\ MonQuiet
    /\ AddrQuiet

NextActivate ==
    \/ LedgerCreates
    \/ \E t \in Callers :
        \/ \E seed_ok \in BOOLEAN : ActCall(t, seed_ok)
        \/ \E gateway_ok \in BOOLEAN : ActCheck(t, gateway_ok)
        \/ \E accepted \in BOOLEAN : ActSubmit(t, accepted)

SpecActivate == InitActivate /\ [][NextActivate]_vars

\* the status of the account on the ledger
LedgerStatus ==
    IF balances = NoAccount THEN NOT_CREATED
    ELSE IF balances = {"XLM"} THEN NOT_ACTIVATED
    ELSE ACTIVATED

\* C29: activate_account(seed) submits a trust transaction only when the
\* account's status is NOT_ACTIVATED; with status NOT_CREATED it raises
\* AccountNotFoundError and with ACTIVATED AccountActivatedError, submitting
\* nothing; after a successful activation the status is ACTIVATED, so the
\* next activate_account on the seed raises AccountActivatedError.
C29_ActivateByStatus ==
    /\ [](\A e \in trust_log : e.status = NOT_ACTIVATED)
    /\ [][\A t \in Callers :
            (kpc[t] = "check" /\ kpc'[t] # "check" /\ kstatus'[t] # "none") =>
                /\ kstatus'[t] = LedgerStatus
                /\ LedgerStatus = NOT_CREATED =>
                      kresult'[t] = "AccountNotFoundError" /\ kpc'[t] = "idle"
                /\ LedgerStatus = ACTIVATED =>
                      kresult'[t] = "AccountActivatedError" /\ kpc'[t] = "idle"
                /\ LedgerStatus = NOT_ACTIVATED => kpc'[t] = "submit"
                /\ trust_log' = trust_log /\ balances' = balances]_vars
    /\ [][\A t \in Callers :
            (kpc[t] = "submit" /\ kresult'[t] = "hash") => LedgerStatus' = ACTIVATED]_vars
    /\ [][LedgerStatus = ACTIVATED => LedgerStatus' = ACTIVATED]_vars

\* one caller activated the account, the next call got AccountActivatedError
C29_Witness ==
    \E t, u \in Callers :
        /\ kresult[t] = "hash"
        /\ kresult[u] = "AccountActivatedError"
        /\ trust_log = {[caller |-> t, status |-> NOT_ACTIVATED]}
        /\ LedgerStatus = ACTIVATED

\* ------------------------------------------------------------------------
\* MultiMonitor.add_address, remove_address and stop (kin/monitors.py)
\* ------------------------------------------------------------------------
\* the addresses a caller may pass
MaxAddresses == 3

notAddrVars == <<mainVars, bldVars, fnVars, ainp, ledVars, monVars, actVars>>

WatchedAddresses == 1..MaxAddresses

InList(a, list) == \E i \in 1..Len(list) : list[i] = a

\* stop(): the stop event is set
AddrStop ==
    /\ ~mm_stopped
    /\ mm_stopped' = TRUE
    /\ UNCHANGED <<addresses, addr_pc, addr_op, addr_result>>
    /\ UNCHANGED notAddrVars

\* add_address(address) or remove_address(address) is called
AddrCall(method, address) ==
    /\ addr_pc = "idle"
    /\ addr_pc' = "called"
    /\ addr_op' = [method |-> method, address |-> address]
    /\ addr_result' = "none"
    /\ UNCHANGED <<addresses, mm_stopped>>
    /\ UNCHANGED notAddrVars

\* the body of add_address
add_address(list, address, stopped, valid, exists) ==
    IF InList(address, list) THEN [list |-> list, result |-> "None"]
    ELSE IF stopped THEN [list |-> list, result |-> "StoppedMonitorError"]
    ELSE IF ~valid THEN [list |-> list, result |-> "StellarAddressInvalidError"]
    ELSE IF ~exists THEN [list |-> list, result |-> "AccountNotFoundError"]
    ELSE [list |-> Append(list, address), result |-> "None"]

\* the body of remove_address; list.remove raises ValueError for an absent
\* element and removes the first occurrence otherwise
remove_address(list, address, stopped) ==
    IF stopped THEN [list |-> list, result |-> "StoppedMonitorError"]
    ELSE IF ~InList(address, list) THEN [list |-> list, result |-> "ValueError"]
    ELSE [list |-> ListRemove(list, address), result |-> "None"]

\* the called method runs
AddrRun(valid, exists) ==
    /\ addr_pc = "called"
    /\ LET r == IF addr_op.method = "add_address"
                THEN add_address(addresses, addr_op.address, mm_stopped, valid, exists)
                ELSE remove_address(addresses, addr_op.address, mm_stopped)
       IN /\ addresses' = r.list
          /\ addr_result' = r.result
    /\ addr_pc' = "idle"
    /\ UNCHANGED <<mm_stopped, addr_op>>
    /\ UNCHANGED notAddrVars

\* MultiMonitor.__init__ takes any non-empty list of existing addresses
InitAddresses ==
    /\ addresses \in {<<a>> : a \in WatchedAddresses}
                     \cup {<<a, b>> : a, b \in WatchedAddresses}
    /\ AddrInit
    /\ QuietMain /\ BldQuiet /\ FnQuiet /\ BuildQuiet /\ LedQuiet /\ MonQuiet /\ ActQuiet

NextAddresses ==
    \/ AddrStop
    \/ \E method \in {"add_address", "remove_address"}, address \in WatchedAddresses :
          AddrCall(method, address)
    \/ \E valid, exists \in BOOLEAN : AddrRun(valid, exists)

SpecAddresses == InitAddresses /\ [][NextAddresses]_vars

\* C33: once stop() has been called, every add_address and every
\* remove_address call raises StoppedMonitorError and leaves the list of
\* watched addresses unchanged.
C33_StoppedRejects ==
    [][(mm_stopped /\ addr_pc = "called" /\ addr_pc' = "idle") =>
            /\ addr_result' = "StoppedMonitorError"
            /\ addresses' = addresses]_vars

\* ------------------------------------------------------------------------
\* KinClient.get_account_tx_history and KinAccount.get_transaction_history
\* (kin/client.py, kin/account.py)
\* ------------------------------------------------------------------------
\* an account has at most MaxHistory transactions, a caller asks for at most
\* MaxAmount of them
MaxHistory == 3

MaxAmount == 3

\* the largest page the gateway is asked for (200 in kin/config.py, scaled
\* down with the history)
MAX_RECORDS_PER_REQUEST == 2

\* the account's transactions in ledger order, TRUE for one that can be
\* simplified; the paging token of a transaction is its position
Histories == UNION {[1..n -> BOOLEAN] : n \in 0..MaxHistory}

HistoryInputs ==
    [history : Histories, valid_address : BOOLEAN, amount : 0..MaxAmount,
     descending : BOOLEAN, cursor : {NoArg} \cup {<<c>> : c \in 1..MaxHistory},
     simple : BOOLEAN]

RECURSIVE Descending(_)
Descending(n) == IF n <= 0 THEN << >> ELSE <<n>> \o Descending(n - 1)

Reverse(seq) == [i \in 1..Len(seq) |-> seq[Len(seq) + 1 - i]]

\* horizon.account_transactions(address, params): the paging tokens of up to
\* limit transactions after the cursor in the order asked for
account_transactions(history, limit, descending, cursor) ==
    LET n == Len(history)
        from == IF descending
                THEN Descending(IF cursor = NoArg THEN n
                                ELSE IF cursor[1] - 1 < n THEN cursor[1] - 1 ELSE n)
                ELSE Reverse(Descending(n))
        after == IF descending \/ cursor = NoArg THEN from
                 ELSE SelectSeq(from, LAMBDA i : i > cursor[1])
    IN SubSeq(after, 1, IF limit < Len(after) THEN limit ELSE Len(after))

ListValue(items) == [kind |-> "list", items |-> items]

NoneValue == [kind |-> "None", items |-> << >>]

RaisedValue(e) == [kind |-> e, items |-> << >>]

\* tx_list.extend(x): None, or TypeError when x is None
list_extend(tx_list, x) ==
    IF x.kind = "list" THEN NoneValue
    ELSE IF x.kind = "None" THEN RaisedValue("TypeError")
    ELSE x

\* the body of get_account_tx_history after the checks of its arguments
RECURSIVE tx_history(_, _, _, _, _)
tx_history(history, amount, descending, cursor, simple) ==
    LET requested_amount == IF amount < MAX_RECORDS_PER_REQUEST THEN amount
                            ELSE MAX_RECORDS_PER_REQUEST
        records == account_transactions(history, requested_amount, descending, cursor)
        tx_list == SelectSeq(records, LAMBDA i : simple => history[i])
        remaining_txs == amount - Len(tx_list)
    IN IF remaining_txs <= 0 \/ Len(records) < amount
       THEN ListValue(tx_list)
       ELSE list_extend(tx_list,
                        tx_history(history, remaining_txs, descending,
                                   <<records[Len(records)]>>, simple))

get_account_tx_history(a) ==
    IF ~a.valid_address THEN RaisedValue("ValueError")
    ELSE IF a.amount <= 0 THEN RaisedValue("ValueError")
    ELSE tx_history(a.history, a.amount, a.descending, a.cursor, a.simple)

\* the amount get_transaction_history passes on
history_amount == 10

\* KinAccount.get_transaction_history(amount, descending, cursor, simple) on
\* an account, whose own address is valid
get_transaction_history(a) ==
    get_account_tx_history([a EXCEPT !.valid_address = TRUE,
                                     !.amount = history_amount,
                                     !.descending = TRUE,
                                     !.cursor = NoArg,
                                     !.simple = TRUE])

InitHistory ==
    /\ fn_args \in HistoryInputs
    /\ fn_done = FALSE
    /\ fn_ret = "none"
    /\ BldQuiet /\ QuietMain /\ BuildQuiet /\ ExtraQuiet

CallClientHistory ==
    /\ ~fn_done
    /\ fn_done' = TRUE
    /\ fn_ret' = [of |-> "client", ret |-> get_account_tx_history(fn_args)]
    /\ UNCHANGED fn_args
    /\ UNCHANGED notFnVars

CallAccountHistory ==
    /\ ~fn_done
    /\ fn_args.valid_address
    /\ fn_done' = TRUE
    /\ fn_ret' = [of |-> "account", ret |-> get_transaction_history(fn_args)]
    /\ UNCHANGED fn_args
    /\ UNCHANGED notFnVars

NextHistory == CallClientHistory \/ CallAccountHistory

SpecHistory == InitHistory /\ [][NextHistory]_vars

\* the first amount transactions after the cursor, in the order asked for,
\* that the call is to return
MatchingFromCursor(a) ==
    LET all == account_transactions(a.history, Len(a.history), a.descending, a.cursor)
        matching == SelectSeq(all, LAMBDA i : a.simple => a.history[i])
    IN SubSeq(matching, 1, IF a.amount < Len(matching) THEN a.amount ELSE Len(matching))

\* C34: get_account_tx_history with valid arguments returns a list holding
\* exactly the first min(amount, number of matching transactions) matching
\* transactions after the cursor in the requested order, also when that
\* takes more than one page.
C34_HistoryComplete ==
    (fn_done /\ fn_ret.of = "client" /\ fn_args.valid_address /\ fn_args.amount > 0) =>
        /\ fn_ret.ret.kind = "list"
        /\ fn_ret.ret.items = MatchingFromCursor(fn_args)

\* C35: KinAccount.get_transaction_history(amount, descending, cursor,
\* simple) returns what KinClient.get_account_tx_history returns for the
\* account's address and the same arguments.
C35_SameAsClient ==
    (fn_done /\ fn_ret.of = "account") =>
        fn_ret.ret = get_account_tx_history(fn_args)

\* ------------------------------------------------------------------------
\* create_channels and get_hd_channels (kin/utils.py)
\* ------------------------------------------------------------------------
\* a caller asks for at most MaxChannelAmount channels
MaxChannelAmount == 4

\* the call's amount, whether the master account exists, and the seeds (by
\* index, from 1) whose account already exists on the ledger
ChannelInputs ==
    UNION {[amount : {n}, base_exists : BOOLEAN, existing : SUBSET (1..n)] :
              n \in 0..MaxChannelAmount}

\* get_hd_channels: the indices of the seeds generated, or ValueError
get_hd_channels(amount) ==
    IF amount > 100 THEN [raised |-> "ValueError", channels |-> << >>]
    ELSE [raised |-> "none", channels |-> [i \in 1..amount |-> i]]

\* create_channels on a ledger with the accounts in a.existing; the
\* transaction that creates an account that exists fails, and any submission
\* may fail (submitted tells whether the gateway accepts it otherwise)
create_channels(a, submitted) ==
    LET hd == get_hd_channels(a.amount)
        channels == hd.channels
        Ret(e, accounts) == [raised |-> e, channels |-> channels, existing |-> accounts]
    IN
    IF ~a.base_exists THEN Ret("AccountNotFoundError", a.existing)
    ELSE IF hd.raised # "none" THEN Ret(hd.raised, a.existing)
    ELSE IF channels = << >> THEN Ret("IndexError", a.existing)
    ELSE IF channels[Len(channels)] \in a.existing THEN Ret("none", a.existing)
    ELSE LET index == CHOOSE i \in 1..Len(channels) :
                          /\ channels[i] \notin a.existing
                          /\ \A j \in 1..(i - 1) : channels[j] \in a.existing
             created == {channels[i] : i \in index..Len(channels)}
         IN IF created \cap a.existing # {} \/ ~submitted
            THEN Ret("HorizonError", a.existing)
            ELSE Ret("none", a.existing \cup created)

InitChannels ==
    /\ fn_args \in ChannelInputs
    /\ fn_done = FALSE
    /\ fn_ret = "none"
    /\ BldQuiet /\ QuietMain /\ BuildQuiet /\ ExtraQuiet

CallCreateChannels(submitted) ==
    /\ ~fn_done
    /\ fn_done' = TRUE
    /\ fn_ret' = create_channels(fn_args, submitted)
    /\ UNCHANGED fn_args
    /\ UNCHANGED notFnVars

NextChannels == \E submitted \in BOOLEAN : CallCreateChannels(submitted)

SpecChannels == InitChannels /\ [][NextChannels]_vars

\* C39: whatever channel accounts exist beforehand, when create_channels
\* returns without error the account of every one of the amount returned
\* seeds exists on the ledger.
C39_AllChannelsExist ==
    (fn_done /\ fn_ret.raised = "none") =>
        /\ Len(fn_ret.channels) = fn_args.amount
        /\ \A i \in 1..fn_args.amount : fn_ret.channels[i] \in fn_ret.existing

\* ------------------------------------------------------------------------
\* Properties of the channel pool (SpecPool)
\* ------------------------------------------------------------------------
\* the callers inside a get_channel context (body or finally clause)
InContext(t) == pc[t] \in {"body", "ctx_put"}

C5_ContextExitFrees ==
    [][\A t \in Callers :
        (InContext(t) /\ pc'[t] = "idle") =>
            \/ queue'[held[t]] = FREE
            \/ queue[held[t]] = UNDERFUNDED /\ queue'[held[t]] = UNDERFUNDED]_vars

\* C6: an UNDERFUNDED channel is never handed out by get, is not counted as
\* free by get_status, and leaves UNDERFUNDED only by a put that sets it FREE.
C6_UnderfundedExcluded ==
    [][/\ \A t \in Callers :
            (pc[t] = "get" /\ pc'[t] = "body") => queue[held'[t]] # UNDERFUNDED
       /\ \A t \in Callers :
            (pc[t] = "idle" /\ pc'[t] = "status") =>
                status'[t].free_channels + Cardinality({c \in DOMAIN queue : queue[c] = UNDERFUNDED})
                    <= status'[t].total_channels
                       - Cardinality({c \in DOMAIN queue : queue[c] = TAKEN})
       /\ \A c \in DOMAIN queue :
            (queue[c] = UNDERFUNDED /\ queue'[c] # UNDERFUNDED) =>
                /\ queue'[c] = FREE
                /\ \E t \in Callers : /\ pc[t] \in {"ctx_put", "put"}
                                      /\ putArg[t] = c
                                      /\ pc'[t] = "idle"]_vars

C6_Witness ==
    \E c \in DOMAIN queue : \E t, u \in Callers :
        /\ queue[c] = UNDERFUNDED
        /\ pc[t] = "body" /\ held[t] # c
        /\ pc[u] = "status"
        /\ status[u].free_channels = Cardinality({d \in DOMAIN queue : queue[d] = FREE})

C8_PoolFixed ==
    /\ DOMAIN queue = channels_seeds
    /\ \A c \in DOMAIN queue : queue[c] \in ChannelStatuses
    /\ \A t \in Callers :
         pc[t] = "status" =>
            /\ status[t].total_channels = NumChannels
            /\ status[t].free_channels + status[t].non_free_channels
                  = status[t].total_channels

====
